---- MODULE Spec2Model ----
(***************************************************************************)
(* Model of the indexing and retrieval core of commit2consumer:            *)
(*   backend/app/services/text_splitter.py   (TextSplitter)                *)
(*   backend/app/services/vector_service.py  (VectorService)               *)
(*   backend/app/services/rag_service.py     (RAGService)                  *)
(* Text is modelled as a sequence of one-character strings, so that        *)
(* len(), split('\n'), '\n'.join(), strip() and slicing are computed as    *)
(* the Python code computes them.                                          *)
(***************************************************************************)
EXTENDS Integers, Sequences, FiniteSets, TLC

(***************************************************************************)
(* Bounds of the model                                                     *)
(***************************************************************************)
\* longest file, in lines, handed to the text-based split
MaxLines == 4
\* longest file, in lines, handed to a structural parser
MaxAstLines == 2
\* most top-level nodes a parse tree holds
MaxNodes == 2
\* most documents handed to one add_documents call
MaxDocs == 2
\* most entry ids generated in one run
MaxIds == 3
\* largest n_results of a search
MaxLimit == 2
\* smallest n_results a caller passes (the search route's limit has ge=1; the
\* other callers pass 8 and 5)
MinLimit == 1
\* most texts handed to the batched embedding loop
MaxTexts == 65
\* most retrieved chunks handed to _build_context
MaxChunks == 3
\* most results search_similar hands to answer_question
MaxRetrieved == 4

(***************************************************************************)
(* Program constants                                                       *)
(***************************************************************************)
CHUNK_SIZE == 1000
CHUNK_OVERLAP == 200

(***************************************************************************)
(* Text helpers                                                            *)
(***************************************************************************)
NL == "\n"

\* a string of n copies of the character c
Rep(c, n) == [i \in 1..n |-> c]

Min(a, b) == IF a < b THEN a ELSE b
Max(a, b) == IF a > b THEN a ELSE b

\* Python's s[a:b] for 0 <= a, b (0-based, b exclusive, clipped)
Slice(s, a, b) == SubSeq(s, a + 1, Min(b, Len(s)))

\* Python's s[-n:] for n > 0
LastN(s, n) == IF n >= Len(s) THEN s ELSE SubSeq(s, Len(s) - n + 1, Len(s))

\* str.split('\n'): the pieces between consecutive newline characters
SplitLines(s) ==
  LET nls == {i \in 1..Len(s) : s[i] = NL}
      n == Cardinality(nls)
      \* position of the k-th newline, 0 before the first, Len+1 after the last
      pos(k) == IF k = 0 THEN 0
                ELSE IF k = n + 1 THEN Len(s) + 1
                ELSE CHOOSE p \in nls : Cardinality({q \in nls : q < p}) = k - 1
  IN [k \in 1..(n + 1) |-> SubSeq(s, pos(k - 1) + 1, pos(k) - 1)]

\* '\n'.join(lines)
RECURSIVE JoinLines(_)
JoinLines(lines) ==
  IF Len(lines) = 0 THEN <<>>
  ELSE IF Len(lines) = 1 THEN lines[1]
  ELSE JoinLines(SubSeq(lines, 1, Len(lines) - 1)) \o <<NL>> \o lines[Len(lines)]

\* sum(len(l) for l in lines)
RECURSIVE SumLen(_)
SumLen(lines) ==
  IF Len(lines) = 0 THEN 0 ELSE Len(lines[1]) + SumLen(Tail(lines))

\* str.strip(chars): drop the characters of chars from both ends
Strip(s, chars) ==
  LET keep == {i \in 1..Len(s) : s[i] \notin chars}
  IN IF keep = {} THEN <<>>
     ELSE LET lo == CHOOSE i \in keep : \A j \in keep : i <= j
              hi == CHOOSE i \in keep : \A j \in keep : j <= i
          IN SubSeq(s, lo, hi)

\* the characters str.strip() without arguments removes (those the model uses)
Whitespace == {" ", "\t"}

\* str.startswith(c) for a one-character prefix
StartsWith(s, c) == Len(s) > 0 /\ s[1] = c

(***************************************************************************)
(* Language names and chunk kinds                                          *)
(***************************************************************************)
LangPython == <<"p", "y", "t", "h", "o", "n">>
LangJavascript == <<"j", "a", "v", "a", "s", "c", "r", "i", "p", "t">>
LangTypescript == <<"t", "y", "p", "e", "s", "c", "r", "i", "p", "t">>
LangMarkdown == <<"m", "a", "r", "k", "d", "o", "w", "n">>
LangText == <<"t", "e", "x", "t">>
Languages == {LangPython, LangJavascript, LangTypescript, LangMarkdown, LangText}

(***************************************************************************)
(* TextSplitter (text_splitter.py)                                         *)
(* self is the splitter's configuration [chunk_size, chunk_overlap,        *)
(* parsers]; a chunk is the dict the code builds.                          *)
(***************************************************************************)
StructuralTypes == {"function_definition", "class_definition", "method_definition"}

\* the node types a tree-sitter grammar gives to top-level nodes
NodeTypes(language) ==
  IF language = LangPython
  THEN {"function_definition", "class_definition", "expression_statement"}
  ELSE {"function_declaration", "class_declaration"}

\* TextChunk with a 1-based start line
TextChunkOneBased(cur, i, language, file_path) ==
  [content |-> JoinLines(cur),
   type |-> "text_chunk",
   start_line |-> i - Len(cur) + 1,
   end_line |-> i - 1,
   language |-> language,
   file_path |-> file_path]

\* _split_by_text, lines 108-116: the chunk emitted when line i overflows the window
TextChunk(cur, i, language, file_path) ==
  [content |-> JoinLines(cur),
   type |-> "text_chunk",
   start_line |-> i - Len(cur),
   end_line |-> i - 1,
   language |-> language,
   file_path |-> file_path]

\* the overlap without the floor of one line
OverlapLinesUnfloored(self, cur) == (Len(cur) * self.chunk_overlap) \div self.chunk_size

\* _split_by_text, line 119
OverlapLines(self, cur) ==
  Max(1, (Len(cur) * self.chunk_overlap) \div self.chunk_size)

\* _split_by_text, lines 103-124: the loop over enumerate(lines), from index i on
RECURSIVE WindowLoop(_, _, _, _, _, _, _, _)
WindowLoop(self, lines, i, chunks, cur, size, language, file_path) ==
  IF i >= Len(lines) THEN [chunks |-> chunks, current_chunk |-> cur]
  ELSE
    LET line == lines[i + 1]
        line_size == Len(line)
        emit == size + line_size > self.chunk_size /\ Len(cur) > 0
        overlap_lines == OverlapLines(self, cur)
        kept == IF overlap_lines > 0 THEN LastN(cur, overlap_lines) ELSE <<>>
        chunks1 == IF emit THEN Append(chunks, TextChunk(cur, i, language, file_path))
                   ELSE chunks
        cur1 == IF emit THEN kept ELSE cur
        size1 == IF emit THEN SumLen(kept) ELSE size
    IN WindowLoop(self, lines, i + 1, chunks1, Append(cur1, line),
                  size1 + line_size, language, file_path)

\* FinalTextChunk ending at len(lines) instead of len(lines) - 1
FinalTextChunkPastEnd(lines, cur, language, file_path) ==
  [content |-> JoinLines(cur),
   type |-> "text_chunk",
   start_line |-> Len(lines) - Len(cur),
   end_line |-> Len(lines),
   language |-> language,
   file_path |-> file_path]

\* _split_by_text, lines 127-136: the final chunk
FinalTextChunk(lines, cur, language, file_path) ==
  [content |-> JoinLines(cur),
   type |-> "text_chunk",
   start_line |-> Len(lines) - Len(cur),
   end_line |-> Len(lines) - 1,
   language |-> language,
   file_path |-> file_path]

\* _split_by_text, lines 96-138: the sliding window over the lines of content
SlidingWindow(self, content, language, file_path) ==
  LET lines == SplitLines(content)
      r == WindowLoop(self, lines, 0, <<>>, <<>>, 0, language, file_path)
  IN IF Len(r.current_chunk) > 0
     THEN Append(r.chunks, FinalTextChunk(lines, r.current_chunk, language, file_path))
     ELSE r.chunks

\* the section record with an end line one past the section's last line
MarkdownChunkPastEnd(section, title, start_line, end_line, file_path) ==
  [content |-> JoinLines(section),
   type |-> "markdown_section",
   title |-> title,
   start_line |-> start_line,
   end_line |-> end_line + 1,
   language |-> LangMarkdown,
   file_path |-> file_path]

\* _split_markdown, lines 155-163 and 175-183: a section's chunk
MarkdownChunk(section, title, start_line, end_line, file_path) ==
  [content |-> JoinLines(section),
   type |-> "markdown_section",
   title |-> title,
   start_line |-> start_line,
   end_line |-> end_line,
   language |-> LangMarkdown,
   file_path |-> file_path]

\* the header test without trimming the line
IsHeaderUntrimmed(line) == StartsWith(line, "#")

\* _split_markdown, line 151
IsHeader(line) == StartsWith(Strip(line, Whitespace), "#")

\* _split_markdown, line 166
HeaderTitle(line) == Strip(line, {"#", " "})

Introduction == <<"I", "n", "t", "r", "o", "d", "u", "c", "t", "i", "o", "n">>

\* _split_markdown, lines 149-170: the loop over enumerate(lines), from index i on
RECURSIVE MarkdownLoop(_, _, _, _, _, _, _)
MarkdownLoop(lines, i, chunks, section, title, start_line, file_path) ==
  IF i >= Len(lines)
  THEN [chunks |-> chunks, current_section |-> section,
        current_title |-> title, start_line |-> start_line]
  ELSE
    LET line == lines[i + 1]
    IN IF IsHeader(line)
       THEN MarkdownLoop(lines, i + 1,
                         IF Len(section) > 0
                         THEN Append(chunks, MarkdownChunk(section, title, start_line,
                                                           i - 1, file_path))
                         ELSE chunks,
                         <<line>>, HeaderTitle(line), i, file_path)
       ELSE MarkdownLoop(lines, i + 1, chunks, Append(section, line), title,
                         start_line, file_path)

\* _split_markdown, lines 140-185
SplitMarkdown(content, file_path) ==
  LET lines == SplitLines(content)
      r == MarkdownLoop(lines, 0, <<>>, <<>>, Introduction, 0, file_path)
  IN IF Len(r.current_section) > 0
     THEN Append(r.chunks, MarkdownChunk(r.current_section, r.current_title,
                                         r.start_line, Len(lines) - 1, file_path))
     ELSE r.chunks

\* _split_by_text, lines 89-138
SplitByText(self, content, language, file_path) ==
  IF language = LangMarkdown
  THEN SplitMarkdown(content, file_path)
  ELSE SlidingWindow(self, content, language, file_path)

\* _split_with_ast, lines 68-81: the chunk of one structural node
AstChunk(lines, node, language, file_path) ==
  [content |-> JoinLines(Slice(lines, node.start_line, node.end_line + 1)),
   type |-> node.type,
   start_line |-> node.start_line,
   end_line |-> node.end_line,
   language |-> language,
   file_path |-> file_path]

\* _split_with_ast, lines 66-81: the chunks of the structural nodes, in tree order
RECURSIVE AstChunks(_, _, _, _)
AstChunks(lines, nodes, language, file_path) ==
  IF Len(nodes) = 0 THEN <<>>
  ELSE (IF nodes[1].type \in StructuralTypes
        THEN <<AstChunk(lines, nodes[1], language, file_path)>>
        ELSE <<>>)
       \o AstChunks(lines, Tail(nodes), language, file_path)

\* _split_with_ast returning the structural chunks even when there are none
SplitWithAstNoFallback(self, content, language, file_path, tree) ==
  AstChunks(SplitLines(content), tree.nodes, language, file_path)

\* _split_with_ast, lines 57-87, given the tree the parser built (tree.raises: the
\* parse raised)
SplitWithAst(self, content, language, file_path, tree) ==
  LET lines == SplitLines(content)
      chunks == AstChunks(lines, tree.nodes, language, file_path)
  IN IF Len(chunks) = 0
     THEN SplitByText(self, content, language, file_path)
     ELSE chunks

\* split_code, lines 44-55
SplitCode(self, content, language, file_path, tree) ==
  IF language \in self.parsers /\ ~tree.raises
  THEN SplitWithAst(self, content, language, file_path, tree)
  ELSE SplitByText(self, content, language, file_path)

(***************************************************************************)
(* The embedding model and the vector store (external to the repository)   *)
(* A store maps the names of the existing collections to                   *)
(* [metadata, entries]; an entry is [id, document, embedding, metadata].   *)
(***************************************************************************)
\* SentenceTransformer.encode on one text: the echo embedding
Embed(text) == text

\* SentenceTransformer.encode(texts).tolist(): one vector per text, in order
Encode(texts) == [i \in 1..Len(texts) |-> Embed(texts[i])]

\* distance of two vectors: the number of positions in which they differ
Distance(u, v) ==
  Cardinality({i \in 1..Max(Len(u), Len(v)) :
                 i > Len(u) \/ i > Len(v) \/ u[i] # v[i]})

\* client.delete_collection(name): raises when the name does not exist
ChromaDelete(store, name, fails) ==
  IF fails \/ name \notin DOMAIN store
  THEN [raised |-> TRUE, store |-> store]
  ELSE [raised |-> FALSE,
        store |-> [n \in DOMAIN store \ {name} |-> store[n]]]

\* client.create_collection(name, metadata): raises when the name exists
ChromaCreate(store, name, metadata, fails) ==
  IF fails \/ name \in DOMAIN store
  THEN [raised |-> TRUE, store |-> store]
  ELSE [raised |-> FALSE,
        store |-> [n \in DOMAIN store \cup {name} |->
                     IF n = name THEN [metadata |-> metadata, entries |-> <<>>]
                     ELSE store[n]]]

\* collection.add(documents, embeddings, metadatas, ids): appends one entry per id;
\* raises on an empty list of ids
ChromaAdd(store, name, documents, embeddings, metadatas, ids, fails) ==
  IF fails \/ Len(ids) = 0 \/ Len(embeddings) # Len(ids)
  THEN [raised |-> TRUE, store |-> store]
  ELSE [raised |-> FALSE,
        store |-> [store EXCEPT ![name].entries =
                     @ \o [k \in 1..Len(ids) |->
                             [id |-> ids[k], document |-> documents[k],
                              embedding |-> embeddings[k],
                              metadata |-> metadatas[k]]]]]

NoFilter == [kind |-> "none"]

\* a where-filter {field: value} on the metadata
Matches(metadata, where) ==
  where.kind = "none" \/ metadata.language = where.language

\* collection.query(query_embeddings=[q], n_results, where, include): the matching
\* entries nearest to q, by ascending distance, ties in insertion order, at most
\* n_results of them; one inner list per query embedding
ChromaQuery(collection, q, n_results, where) ==
  LET es == collection.entries
      cand == {i \in 1..Len(es) : Matches(es[i].metadata, where)}
      d(i) == Distance(q, es[i].embedding)
      before(i) == {j \in cand : d(j) < d(i) \/ (d(j) = d(i) /\ j < i)}
      n == Min(n_results, Cardinality(cand))
      ranked == [r \in 1..n |-> CHOOSE i \in cand : Cardinality(before(i)) = r - 1]
  IN [documents |-> <<[r \in 1..n |-> es[ranked[r]].document]>>,
      metadatas |-> <<[r \in 1..n |-> es[ranked[r]].metadata]>>,
      distances |-> <<[r \in 1..n |-> d(ranked[r])]>>]

(***************************************************************************)
(* VectorService (vector_service.py)                                       *)
(* Each handler is an operator from the store and the call's arguments to  *)
(* [raised, returned, store]; fault names the external calls that fail.    *)
(***************************************************************************)
BATCH_SIZE == 32

RepoPrefix == <<"r", "e", "p", "o", "_">>

\* create_collection, line 41: f"repo_{repo_id.replace('-', '_')}"
CollectionName(repo_id) ==
  RepoPrefix \o [i \in 1..Len(repo_id) |-> IF repo_id[i] = "-" THEN "_" ELSE repo_id[i]]

\* create_collection that keeps a collection that exists (get or create)
CreateCollectionMerging(store, repo_id, fault) ==
  LET collection_name == CollectionName(repo_id)
      created == ChromaCreate(store, collection_name,
                              [repository_id |-> repo_id], fault.create)
  IN IF collection_name \in DOMAIN store
     THEN [raised |-> FALSE, returned |-> collection_name, store |-> store]
     ELSE IF created.raised
     THEN [raised |-> TRUE, returned |-> <<>>, store |-> store]
     ELSE [raised |-> FALSE, returned |-> collection_name, store |-> created.store]

\* create_collection, lines 38-59
CreateCollection(store, repo_id, fault) ==
  LET collection_name == CollectionName(repo_id)
      \* lines 44-47: any exception of the delete is swallowed
      deleted == ChromaDelete(store, collection_name, fault.delete)
      created == ChromaCreate(deleted.store, collection_name,
                              [repository_id |-> repo_id], fault.create)
  IN IF created.raised
     THEN [raised |-> TRUE, returned |-> <<>>, store |-> deleted.store]
     ELSE [raised |-> FALSE, returned |-> collection_name, store |-> created.store]

\* _generate_embeddings, lines 153-165: encode in the executor; errors are re-raised
GenerateEmbeddings(texts, fails) ==
  IF fails THEN [raised |-> TRUE, embeddings |-> <<>>]
  ELSE [raised |-> FALSE, embeddings |-> Encode(texts)]

\* the batch loop putting each batch's vectors before the earlier ones
RECURSIVE EmbedBatchesPrepending(_, _, _, _)
EmbedBatchesPrepending(all_chunks, i, all_embeddings, failing_batch) ==
  IF i >= Len(all_chunks) THEN [raised |-> FALSE, embeddings |-> all_embeddings]
  ELSE LET batch_chunks == Slice(all_chunks, i, i + BATCH_SIZE)
           batch == GenerateEmbeddings(batch_chunks,
                                       failing_batch = (i \div BATCH_SIZE) + 1)
       IN IF batch.raised THEN [raised |-> TRUE, embeddings |-> all_embeddings]
          ELSE EmbedBatchesPrepending(all_chunks, i + BATCH_SIZE,
                                      batch.embeddings \o all_embeddings,
                                      failing_batch)

\* add_documents, lines 93-98: the loop over range(0, len(all_chunks), batch_size),
\* from offset i on; failing_batch is the batch (1, 2, ...) whose embedding fails,
\* 0 when none does
RECURSIVE EmbedBatches(_, _, _, _)
EmbedBatches(all_chunks, i, all_embeddings, failing_batch) ==
  IF i >= Len(all_chunks) THEN [raised |-> FALSE, embeddings |-> all_embeddings]
  ELSE LET batch_chunks == Slice(all_chunks, i, i + BATCH_SIZE)
           batch == GenerateEmbeddings(batch_chunks,
                                       failing_batch = (i \div BATCH_SIZE) + 1)
       IN IF batch.raised THEN [raised |-> TRUE, embeddings |-> all_embeddings]
          ELSE EmbedBatches(all_chunks, i + BATCH_SIZE,
                            all_embeddings \o batch.embeddings, failing_batch)

\* ChunkMetadata with a 1-based chunk_index
ChunkMetadataOneBased(doc, i, chunk) ==
  [file_path |-> doc.path,
   language |-> doc.language,
   chunk_index |-> i + 1,
   chunk_type |-> chunk.type,
   start_line |-> chunk.start_line,
   end_line |-> chunk.end_line]

\* add_documents, lines 83-90: the metadata of chunk i of doc
ChunkMetadata(doc, i, chunk) ==
  [file_path |-> doc.path,
   language |-> doc.language,
   chunk_index |-> i,
   chunk_type |-> chunk.type,
   start_line |-> chunk.start_line,
   end_line |-> chunk.end_line]

\* add_documents, lines 77-91: the loop over the chunks of one document, appending
\* to the three lists
CollectDocument(acc, doc, chunks, next_id) ==
  [all_chunks |-> acc.all_chunks \o [k \in 1..Len(chunks) |-> chunks[k].content],
   all_metadatas |-> acc.all_metadatas \o
                     [k \in 1..Len(chunks) |-> ChunkMetadata(doc, k - 1, chunks[k])],
   all_ids |-> acc.all_ids \o
               [k \in 1..Len(chunks) |-> next_id + Len(acc.all_ids) + k - 1]]

\* add_documents, lines 71-91: the loop over documents, from the d-th on; trees[d]
\* is the parse of the d-th document; ids are drawn fresh, from next_id on
RECURSIVE CollectChunks(_, _, _, _, _, _)
CollectChunks(self, documents, trees, d, acc, next_id) ==
  IF d > Len(documents) THEN acc
  ELSE CollectChunks(self, documents, trees, d + 1,
                     CollectDocument(acc, documents[d],
                                     SplitCode(self, documents[d].content,
                                               documents[d].language,
                                               documents[d].path, trees[d]),
                                     next_id),
                     next_id)

\* AddCollected handing the vectors to the store in reverse order
AddCollectedMisaligned(store, collection_name, c, fault) ==
  LET e == EmbedBatches(c.all_chunks, 0, <<>>, fault.embed)
      n == Len(e.embeddings)
      added == ChromaAdd(store, collection_name, c.all_chunks,
                         [k \in 1..n |-> e.embeddings[n - k + 1]],
                         c.all_metadatas, c.all_ids, fault.add)
  IN IF e.raised \/ added.raised
     THEN [raised |-> TRUE, returned |-> <<>>, store |-> store]
     ELSE [raised |-> FALSE, returned |-> c.all_ids, store |-> added.store]

\* AddCollected persisting the new entries in place of the collection's old ones
AddCollectedReplacing(store, collection_name, c, fault) ==
  LET e == EmbedBatches(c.all_chunks, 0, <<>>, fault.embed)
      added == ChromaAdd([store EXCEPT ![collection_name].entries = <<>>],
                         collection_name, c.all_chunks, e.embeddings,
                         c.all_metadatas, c.all_ids, fault.add)
  IN IF e.raised \/ added.raised
     THEN [raised |-> TRUE, returned |-> <<>>, store |-> store]
     ELSE [raised |-> FALSE, returned |-> c.all_ids, store |-> added.store]

\* AddCollected persisting, when a batch fails, the chunks embedded before it
AddCollectedKeepingEmbedded(store, collection_name, c, fault) ==
  LET e == EmbedBatches(c.all_chunks, 0, <<>>, fault.embed)
      n == Len(e.embeddings)
      added == ChromaAdd(store, collection_name, SubSeq(c.all_chunks, 1, n),
                         e.embeddings, SubSeq(c.all_metadatas, 1, n),
                         SubSeq(c.all_ids, 1, n), fault.add)
  IN IF e.raised \/ added.raised
     THEN [raised |-> TRUE, returned |-> <<>>,
           store |-> IF added.raised THEN store ELSE added.store]
     ELSE [raised |-> FALSE, returned |-> c.all_ids, store |-> added.store]

\* AddCollected returning the ids whether or not the store persisted the entries
AddCollectedSwallowing(store, collection_name, c, fault) ==
  LET e == EmbedBatches(c.all_chunks, 0, <<>>, fault.embed)
      added == ChromaAdd(store, collection_name, c.all_chunks, e.embeddings,
                         c.all_metadatas, c.all_ids, fault.add)
  IN IF e.raised
     THEN [raised |-> TRUE, returned |-> <<>>, store |-> store]
     ELSE [raised |-> FALSE, returned |-> c.all_ids, store |-> added.store]

\* add_documents, lines 93-109: embedding and persisting the collected lists c
AddCollected(store, collection_name, c, fault) ==
  LET e == EmbedBatches(c.all_chunks, 0, <<>>, fault.embed)
      added == ChromaAdd(store, collection_name, c.all_chunks, e.embeddings,
                         c.all_metadatas, c.all_ids, fault.add)
  IN IF e.raised \/ added.raised
     THEN [raised |-> TRUE, returned |-> <<>>, store |-> store]
     ELSE [raised |-> FALSE, returned |-> c.all_ids, store |-> added.store]

\* add_documents, lines 61-113
AddDocuments(store, self, collection_name, documents, trees, next_id, fault) ==
  IF collection_name \notin DOMAIN store \/ fault.split
  THEN [raised |-> TRUE, returned |-> <<>>, store |-> store]
  ELSE AddCollected(store, collection_name,
                    CollectChunks(self, documents, trees, 1,
                                  [all_chunks |-> <<>>, all_metadatas |-> <<>>,
                                   all_ids |-> <<>>], next_id),
                    fault)

\* search_similar, lines 138-145: the formatted results
FormatResults(results) ==
  IF Len(results.documents) > 0
  THEN [i \in 1..Len(results.documents[1]) |->
          [content |-> results.documents[1][i],
           metadata |-> results.metadatas[1][i],
           distance |-> results.distances[1][i]]]
  ELSE <<>>

\* search_similar answering a missing collection with no results
SearchSimilarEmptyOnMissing(store, collection_name, query, n_results, filter_dict, fault) ==
  IF collection_name \notin DOMAIN store
  THEN [raised |-> FALSE, returned |-> <<>>, store |-> store]
  ELSE
    LET query_embedding == GenerateEmbeddings(<<query>>, fault.embed = 1)
    IN IF query_embedding.raised
       THEN [raised |-> TRUE, returned |-> <<>>, store |-> store]
       ELSE [raised |-> FALSE,
             returned |-> FormatResults(
                            ChromaQuery(store[collection_name],
                                        query_embedding.embeddings[1],
                                        n_results, filter_dict)),
             store |-> store]

\* search_similar treating an empty result as an error
SearchSimilarRaisingOnEmpty(store, collection_name, query, n_results, filter_dict, fault) ==
  IF collection_name \notin DOMAIN store
  THEN [raised |-> TRUE, returned |-> <<>>, store |-> store]
  ELSE
    LET query_embedding == GenerateEmbeddings(<<query>>, fault.embed = 1)
        found == FormatResults(
                   ChromaQuery(store[collection_name],
                               query_embedding.embeddings[1], n_results, filter_dict))
    IN IF query_embedding.raised \/ Len(found) = 0
       THEN [raised |-> TRUE, returned |-> <<>>, store |-> store]
       ELSE [raised |-> FALSE, returned |-> found, store |-> store]

\* search_similar not passing n_results on: the query runs with the default of 5
SearchSimilarIgnoringLimit(store, collection_name, query, n_results, filter_dict, fault) ==
  IF collection_name \notin DOMAIN store
  THEN [raised |-> TRUE, returned |-> <<>>, store |-> store]
  ELSE
    LET query_embedding == GenerateEmbeddings(<<query>>, fault.embed = 1)
    IN IF query_embedding.raised
       THEN [raised |-> TRUE, returned |-> <<>>, store |-> store]
       ELSE [raised |-> FALSE,
             returned |-> FormatResults(
                            ChromaQuery(store[collection_name],
                                        query_embedding.embeddings[1],
                                        5, filter_dict)),
             store |-> store]

\* search_similar, lines 115-151
SearchSimilar(store, collection_name, query, n_results, filter_dict, fault) ==
  IF collection_name \notin DOMAIN store
  THEN [raised |-> TRUE, returned |-> <<>>, store |-> store]
  ELSE
    LET query_embedding == GenerateEmbeddings(<<query>>, fault.embed = 1)
    IN IF query_embedding.raised
       THEN [raised |-> TRUE, returned |-> <<>>, store |-> store]
       ELSE [raised |-> FALSE,
             returned |-> FormatResults(
                            ChromaQuery(store[collection_name],
                                        query_embedding.embeddings[1],
                                        n_results, filter_dict)),
             store |-> store]

\* delete_collection passing the client's exception on
DeleteCollectionRaising(store, collection_name, fault) ==
  LET deleted == ChromaDelete(store, collection_name, fault.delete)
  IN [raised |-> deleted.raised, returned |-> <<>>, store |-> deleted.store,
      log |-> IF deleted.raised THEN "warning" ELSE "info"]

\* delete_collection, lines 175-181: any exception is logged as a warning
DeleteCollection(store, collection_name, fault) ==
  LET deleted == ChromaDelete(store, collection_name, fault.delete)
  IN [raised |-> FALSE, returned |-> <<>>, store |-> deleted.store,
      log |-> IF deleted.raised THEN "warning" ELSE "info"]

(***************************************************************************)
(* RAGService (rag_service.py)                                             *)
(***************************************************************************)
MAX_CONTEXT_TOKENS == 3000

\* count_tokens, lines 167-173, in the service whose tokenizer could not be loaded
\* (lines 34-36): len(text) // 4
CountTokens(text) == Len(text) \div 4

Unknown == <<"u", "n", "k", "n", "o", "w", "n">>

\* dict.get(key, default) on a chunk's metadata
Get(metadata, key, default) ==
  IF key \in DOMAIN metadata THEN metadata[key] ELSE default

\* _build_context, lines 78-81: the block of one chunk
ContextBlock(chunk) ==
  <<"F", "i", "l", "e", ":", " ">> \o chunk.metadata.file_path \o <<NL>>
  \o <<"L", "a", "n", "g", "u", "a", "g", "e", ":", " ">>
  \o Get(chunk.metadata, "language", Unknown) \o <<NL>>
  \o <<"C", "o", "n", "t", "e", "n", "t", ":", NL>> \o chunk.content \o <<NL>>
  \o <<"-", "-", "-", NL>>

\* the loop skipping a block that does not fit and going on with the next
RECURSIVE ContextLoopSkipping(_, _, _, _)
ContextLoopSkipping(chunks, k, context_parts, total_tokens) ==
  IF k > Len(chunks) THEN [context_parts |-> context_parts, total_tokens |-> total_tokens]
  ELSE LET chunk_content == ContextBlock(chunks[k])
           chunk_tokens == CountTokens(chunk_content)
       IN IF total_tokens + chunk_tokens > MAX_CONTEXT_TOKENS
          THEN ContextLoopSkipping(chunks, k + 1, context_parts, total_tokens)
          ELSE ContextLoopSkipping(chunks, k + 1, Append(context_parts, chunk_content),
                                   total_tokens + chunk_tokens)

\* _build_context, lines 77-89: the loop over chunks, from the k-th on, until the
\* break
RECURSIVE ContextLoop(_, _, _, _)
ContextLoop(chunks, k, context_parts, total_tokens) ==
  IF k > Len(chunks) THEN [context_parts |-> context_parts, total_tokens |-> total_tokens]
  ELSE LET chunk_content == ContextBlock(chunks[k])
           chunk_tokens == CountTokens(chunk_content)
       IN IF total_tokens + chunk_tokens > MAX_CONTEXT_TOKENS
          THEN [context_parts |-> context_parts, total_tokens |-> total_tokens]
          ELSE ContextLoop(chunks, k + 1, Append(context_parts, chunk_content),
                           total_tokens + chunk_tokens)

\* _build_context, lines 72-91
BuildContext(chunks) == JoinLines(ContextLoop(chunks, 1, <<>>, 0).context_parts)

\* _prepare_messages, lines 102-109: the repository paragraph of the system
\* message; repository_info is a dict, empty for None (both are falsy); the fixed
\* wording is abbreviated to one character per label
RepoContext(repository_info) ==
  IF DOMAIN repository_info = {} THEN <<>>
  ELSE <<"N">> \o Get(repository_info, "name", Unknown)
       \o <<"D">> \o Get(repository_info, "description", <<"N", "o">>)
       \o <<"L">> \o Get(repository_info, "language", Unknown)

\* _prepare_messages, lines 111-127: the system message, its fixed wording
\* abbreviated to one character before each inserted text
SystemMessage(repo_context, context) == <<"S">> \o repo_context \o <<"C">> \o context

\* the messages with the first ten turns of the history instead of the last ten
PrepareMessagesOldestFirst(question, context, conversation_history, repository_info) ==
  <<[role |-> "system",
     content |-> SystemMessage(RepoContext(repository_info), context)]>>
  \o [k \in 1..Min(10, Len(conversation_history)) |->
        [role |-> conversation_history[k].role,
         content |-> conversation_history[k].content]]
  \o <<[role |-> "user", content |-> question]>>

\* _prepare_messages, lines 93-141
PrepareMessages(question, context, conversation_history, repository_info) ==
  <<[role |-> "system",
     content |-> SystemMessage(RepoContext(repository_info), context)]>>
  \o [k \in 1..Len(LastN(conversation_history, 10)) |->
        [role |-> LastN(conversation_history, 10)[k].role,
         content |-> LastN(conversation_history, 10)[k].content]]
  \o <<[role |-> "user", content |-> question]>>

\* answer_question, lines 57-65: the entry of context_used for one chunk
ContextUsedEntry(chunk) ==
  [file_path |-> chunk.metadata.file_path,
   chunk_type |-> Get(chunk.metadata, "chunk_type", "unknown"),
   relevance_score |-> 1 - chunk.distance]

\* answer_question reporting the sources of the blocks that fitted into the context
AnswerQuestionUsedFromContext(search, question, conversation_history, repository_info, llm) ==
  IF search.raised \/ llm.raised
  THEN [raised |-> TRUE, messages |-> <<>>, returned |-> <<>>]
  ELSE [raised |-> FALSE,
        messages |-> PrepareMessages(question, BuildContext(search.returned),
                                     conversation_history, repository_info),
        returned |->
          [answer |-> llm.content,
           context_used |->
             [k \in 1..Len(ContextLoop(search.returned, 1, <<>>, 0).context_parts) |->
                ContextUsedEntry(search.returned[k])],
           sources |-> {search.returned[k].metadata.file_path :
                          k \in 1..Len(search.returned)}]]

\* answer_question, lines 17-70, given the outcome of search_similar(collection_name,
\* question, n_results=8) and of the chat completion; sources is list(set(...)),
\* whose order is not determined: a set
AnswerQuestion(search, question, conversation_history, repository_info, llm) ==
  IF search.raised \/ llm.raised
  THEN [raised |-> TRUE, messages |-> <<>>, returned |-> <<>>]
  ELSE [raised |-> FALSE,
        messages |-> PrepareMessages(question, BuildContext(search.returned),
                                     conversation_history, repository_info),
        returned |->
          [answer |-> llm.content,
           context_used |->
             [k \in 1..Min(3, Len(search.returned)) |->
                ContextUsedEntry(search.returned[k])],
           sources |-> {search.returned[k].metadata.file_path :
                          k \in 1..Len(search.returned)}]]

(***************************************************************************)
(* Inputs of the model                                                     *)
(***************************************************************************)
\* TextSplitter.__init__, lines 13-14: settings.CHUNK_SIZE and CHUNK_OVERLAP are
\* read from the environment; the default, the spec's scenario and a small one
Configs ==
  {[chunk_size |-> CHUNK_SIZE, chunk_overlap |-> CHUNK_OVERLAP],
   [chunk_size |-> 50, chunk_overlap |-> 10],
   [chunk_size |-> 4, chunk_overlap |-> 3]}

\* _setup_parsers, lines 22-42: the parsers registered before the first failure
\* (none, those before the TypeScript parser, all)
ParserSets ==
  {{}, {LangPython, LangJavascript}, {LangPython, LangJavascript, LangTypescript}}

\* lengths of the lines of a plain file, relative to the window (fewer for the
\* default window, whose lines are long)
LineLens(cs) ==
  IF cs >= CHUNK_SIZE THEN {cs \div 2, cs + 1}
  ELSE {0, cs \div 4, cs \div 2, cs + 1}

TextLines(cs) == {Rep("a", n) : n \in LineLens(cs)}

MarkdownLines ==
  {<<"#", " ", "T">>, <<" ", "#", "#", "b", " ", "#">>, <<"x">>}

\* the files of at most n lines over a pool of lines, as the text read from disk
RECURSIVE LineSeqs(_, _)
LineSeqs(pool, n) ==
  IF n = 0 THEN {<<>>}
  ELSE LET shorter == LineSeqs(pool, n - 1)
       IN shorter \cup {Append(ls, l) : ls \in {x \in shorter : Len(x) = n - 1}, l \in pool}

Contents(cs, n) ==
  {JoinLines(ls) : ls \in (LineSeqs(TextLines(cs), n) \cup LineSeqs(MarkdownLines, n))
                          \ {<<>>}}

\* the file of the worked scenario: 12 lines of 10 characters each, split under
\* chunk_size 50 and chunk_overlap 10 without a parser
ScenarioFile == JoinLines([i \in 1..12 |-> Rep("a", 10)])

ScenarioFiles(self, language) ==
  IF self.chunk_size = 50 /\ self.chunk_overlap = 10 /\ language \notin self.parsers
  THEN {ScenarioFile} ELSE {}

LineCount(content) == Cardinality({i \in 1..Len(content) : content[i] = NL}) + 1

\* the trees a parser may build for a file of n lines: top-level nodes in source
\* order, each within the file
RECURSIVE Trees(_, _, _, _)
Trees(language, first, n, k) ==
  IF k = 0 THEN {<<>>}
  ELSE {<<>>} \cup
       {<<[type |-> t, start_line |-> a, end_line |-> b]>> \o rest :
          t \in NodeTypes(language), a \in first..(n - 1), b \in first..(n - 1),
          rest \in Trees(language, first + 1, n, k - 1)}

WellFormedTree(nodes, n) ==
  /\ \A i \in 1..Len(nodes) :
       0 <= nodes[i].start_line /\ nodes[i].start_line <= nodes[i].end_line
       /\ nodes[i].end_line <= n - 1
  /\ \A i \in 1..(Len(nodes) - 1) : nodes[i].end_line < nodes[i + 1].start_line

ParseOutcomes(language, n) ==
  {[raises |-> TRUE, nodes |-> <<>>]} \cup
  {[raises |-> FALSE, nodes |-> ns] :
     ns \in {t \in Trees(language, 0, n, MaxNodes) : WellFormedTree(t, n)}}

NoTree == [raises |-> FALSE, nodes |-> <<>>]

PathA == <<"a", ".", "p", "y">>

(***************************************************************************)
(* State                                                                   *)
(***************************************************************************)
VARIABLES
  splitter,     \* the TextSplitter: [chunk_size, chunk_overlap, parsers]
  splitCall,    \* the last split_code call: its arguments, the tree, the result
  collections,  \* the vector store: the existing collections, by name
  nextId,       \* the next fresh entry id (uuid4 never repeats)
  lastCall,     \* the last VectorService call: arguments, faults, outcome
  embedCall,    \* the last run of add_documents' batched embedding loop
  ragCall,      \* the last _build_context call: the chunks, the context returned
  addedSince,   \* per existing collection: ids, the ids returned by add_documents
                \* since the last successful create_collection of its name, and
                \* discarded, the entries that create_collection calls replaced
  database,     \* the SQL tables (repositories, documents, conversations,
                \* messages) and the queue of submitted processing tasks
  pool          \* VectorService.executor: its work queue and running tasks, and
                \* the positions of an add_documents and a search_similar coroutine

vars ==
  <<splitter, splitCall, collections, nextId, lastCall, addedSince, embedCall,
    ragCall, database, pool>>

storeVars == <<collections, nextId, lastCall, addedSince>>

otherVars == <<embedCall, ragCall, database, pool>>

NoCall == [op |-> "none", changed |-> TRUE]

\* core/database.py: the tables as created, and no task submitted
EmptyDatabase ==
  [repositories |-> <<>>, documents |-> <<>>, conversations |-> <<>>,
   messages |-> <<>>, queue |-> {}]

\* VectorService.__init__, line 29: the executor with no task, and no call running
IdlePool ==
  [queue |-> <<>>, running |-> {}, finished |-> {},
   add |-> [pc |-> "idle", k |-> 0, n |-> 0],
   query |-> [pc |-> "idle"]]

(***************************************************************************)
(* Specification SpecSplit: calls of TextSplitter.split_code               *)
(***************************************************************************)
InitSplit ==
  /\ splitter \in {[chunk_size |-> c.chunk_size, chunk_overlap |-> c.chunk_overlap,
                    parsers |-> ps] : c \in Configs, ps \in ParserSets}
  /\ splitCall = NoCall
  /\ collections = <<>>
  /\ nextId = 1
  /\ lastCall = NoCall
  /\ addedSince = <<>>
  /\ embedCall = NoCall
  /\ ragCall = NoCall
  /\ database = EmptyDatabase
  /\ pool = IdlePool

\* split_code(content, language, file_path), lines 44-55
SplitCodeCall ==
  /\ splitCall.op = "none"
  /\ \E language \in Languages :
    \E content \in Contents(splitter.chunk_size,
                            IF language \in splitter.parsers
                            THEN MaxAstLines ELSE MaxLines)
                   \cup ScenarioFiles(splitter, language) :
      \E tree \in (IF language \in splitter.parsers
                   THEN ParseOutcomes(language, LineCount(content))
                   ELSE {NoTree}) :
        /\ splitCall' = [op |-> "split_code", content |-> content,
                         language |-> language, file_path |-> PathA, tree |-> tree,
                         returned |-> SplitCode(splitter, content, language, PathA, tree)]
        /\ UNCHANGED <<splitter, storeVars, otherVars>>

NextSplit == SplitCodeCall

SpecSplit == InitSplit /\ [][NextSplit]_vars

(***************************************************************************)
(* Specification SpecStore: calls of VectorService on one vector store     *)
(***************************************************************************)
RepoIds == {<<"a", "-", "b">>, <<"a", "_", "b">>, <<"c">>}

\* the names handed to add_documents, search_similar and delete_collection: the
\* names create_collection derives, and a repository id used as a name
StoreNames == {CollectionName(r) : r \in RepoIds} \cup {<<"c">>}

DocMd ==
  [path |-> <<"r", ".", "m", "d">>, content |-> <<"#", " ", "T">>,
   language |-> LangMarkdown, size |-> 3]

DocText ==
  [path |-> <<"b">>,
   content |-> <<"a", "a", NL, "b", "b", NL, "c", "c">>,
   language |-> LangText, size |-> 8]

Docs == {DocMd, DocText}

DocLists == LineSeqs(Docs, MaxDocs)

QueryTexts == {<<"#">>, <<"b", "b", NL, "c", "c">>}

\* filter_dict: no caller passes one
Filters == {NoFilter}

\* the splitter VectorService.__init__ builds, line 28
StoreSplitter == [chunk_size |-> 4, chunk_overlap |-> 3, parsers |-> {}]

\* the external failures of one add_documents call: embedding of a batch fails
\* (embed = the batch, 0 for none), or collection.add fails, or neither
AddFaults ==
  {[split |-> FALSE, embed |-> 0, add |-> FALSE],
   [split |-> TRUE, embed |-> 0, add |-> FALSE],
   [split |-> FALSE, embed |-> 1, add |-> FALSE],
   [split |-> FALSE, embed |-> 0, add |-> TRUE]}

\* one parse outcome per document
RECURSIVE TreeLists(_, _)
TreeLists(self, documents) ==
  IF Len(documents) = 0 THEN {<<>>}
  ELSE {<<t>> \o rest :
          t \in (IF documents[1].language \in self.parsers
                 THEN ParseOutcomes(documents[1].language,
                                    LineCount(documents[1].content))
                 ELSE {NoTree}),
          rest \in TreeLists(self, Tail(documents))}

InitStore ==
  /\ splitter = StoreSplitter
  /\ splitCall = NoCall
  /\ collections = <<>>
  /\ nextId = 1
  /\ lastCall = NoCall
  /\ addedSince = <<>>
  /\ embedCall = NoCall
  /\ ragCall = NoCall
  /\ database = EmptyDatabase
  /\ pool = IdlePool

\* the ids added since the last create, for the collections that exist afterwards
Restrict(f, names) == [n \in names \cap DOMAIN f |-> f[n]]

\* The service takes the next call when the last one has returned.  A call that
\* left the store as it was (a search, a failed call, a delete of a missing name)
\* is explored as the last call of a run: what can follow it is what follows the
\* call before it, from the same store.
Ready == lastCall.changed

\* create_collection(repo_id), lines 38-59
CreateCollectionCall ==
  /\ Ready
  /\ \E repo_id \in RepoIds, fd \in BOOLEAN, fc \in BOOLEAN :
    LET fault == [delete |-> fd, create |-> fc]
        r == CreateCollection(collections, repo_id, fault)
        name == CollectionName(repo_id)
    IN /\ collections' = r.store
       /\ lastCall' = [op |-> "create_collection", repo_id |-> repo_id,
                       fault |-> fault, raised |-> r.raised, returned |-> r.returned,
                       changed |-> r.store # collections,
                       replaced |->
                         IF name \in DOMAIN collections /\ ~fault.delete
                         THEN {collections[name].metadata.repository_id}
                         ELSE {}]
       /\ addedSince' = [n \in DOMAIN r.store |->
                           IF n = name /\ ~r.raised
                           THEN [ids |-> <<>>,
                                 discarded |->
                                   IF n \in DOMAIN collections
                                   THEN addedSince[n].discarded
                                        + Len(collections[n].entries)
                                   ELSE 0]
                           ELSE addedSince[n]]
       /\ UNCHANGED <<splitter, splitCall, nextId, otherVars>>

\* add_documents(collection_name, documents), lines 61-113
AddDocumentsCall ==
  /\ Ready
  /\ \E collection_name \in StoreNames, documents \in DocLists,
     fault \in AddFaults :
    \E trees \in TreeLists(splitter, documents) :
      \E r \in {AddDocuments(collections, splitter, collection_name, documents,
                              trees, nextId, fault)} :
        /\ nextId + Len(r.returned) - 1 <= MaxIds
        /\ collections' = r.store
        /\ nextId' = nextId + Len(r.returned)
        /\ lastCall' = [op |-> "add_documents", collection_name |-> collection_name,
                        documents |-> documents, trees |-> trees, fault |-> fault,
                        raised |-> r.raised, returned |-> r.returned,
                        changed |-> r.store # collections]
        /\ addedSince' = IF r.raised THEN addedSince
                         ELSE [addedSince EXCEPT ![collection_name].ids = @ \o r.returned]
        /\ UNCHANGED <<splitter, splitCall, otherVars>>

\* search_similar(collection_name, query, n_results, filter_dict), lines 115-151
SearchSimilarCall ==
  /\ Ready
  /\ \E collection_name \in StoreNames, query \in QueryTexts,
     n_results \in MinLimit..MaxLimit, filter_dict \in Filters,
     fe \in 0..1 :
    LET fault == [embed |-> fe]
        r == SearchSimilar(collections, collection_name, query, n_results,
                           filter_dict, fault)
    IN /\ lastCall' = [op |-> "search_similar", collection_name |-> collection_name,
                       query |-> query, n_results |-> n_results,
                       filter_dict |-> filter_dict, fault |-> fault,
                       raised |-> r.raised, returned |-> r.returned,
                       changed |-> r.store # collections,
                       just_created |->
                         IF lastCall.op = "create_collection" /\ ~lastCall.raised
                         THEN {lastCall.returned} ELSE {}]
       /\ collections' = r.store
       /\ UNCHANGED <<splitter, splitCall, nextId, addedSince, otherVars>>

\* delete_collection(collection_name), lines 175-181
DeleteCollectionCall ==
  /\ Ready
  /\ \E collection_name \in StoreNames, fd \in BOOLEAN :
    LET fault == [delete |-> fd]
        r == DeleteCollection(collections, collection_name, fault)
    IN /\ collections' = r.store
       /\ lastCall' = [op |-> "delete_collection", collection_name |-> collection_name,
                       fault |-> fault, raised |-> r.raised, returned |-> r.returned,
                       log |-> r.log, changed |-> r.store # collections]
       /\ addedSince' = Restrict(addedSince, DOMAIN r.store)
       /\ UNCHANGED <<splitter, splitCall, nextId, otherVars>>

NextStore ==
  \/ CreateCollectionCall
  \/ AddDocumentsCall
  \/ SearchSimilarCall
  \/ DeleteCollectionCall

SpecStore == InitStore /\ [][NextStore]_vars

(***************************************************************************)
(* Specification SpecEmbed: the batched embedding loop of add_documents     *)
(***************************************************************************)
\* n distinct texts: the i-th has i characters, or n - i + 1
TextLists ==
  {[i \in 1..n |-> Rep("a", i)] : n \in 0..MaxTexts}
  \cup {[i \in 1..n |-> Rep("b", n - i + 1)] : n \in 0..MaxTexts}

\* the batch whose embedding fails: none, or one of the first three
FailingBatches == 0..3

InitEmbed ==
  /\ splitter = StoreSplitter
  /\ splitCall = NoCall
  /\ collections = <<>>
  /\ nextId = 1
  /\ lastCall = NoCall
  /\ addedSince = <<>>
  /\ embedCall = NoCall
  /\ ragCall = NoCall
  /\ database = EmptyDatabase
  /\ pool = IdlePool

\* add_documents, lines 93-98, on the chunk texts all_chunks
EmbedBatchesCall ==
  /\ embedCall.op = "none"
  /\ \E all_chunks \in TextLists, failing_batch \in FailingBatches :
       LET r == EmbedBatches(all_chunks, 0, <<>>, failing_batch)
       IN embedCall' = [op |-> "embed_batches", all_chunks |-> all_chunks,
                        failing_batch |-> failing_batch, raised |-> r.raised,
                        all_embeddings |-> r.embeddings]
  /\ UNCHANGED <<splitter, splitCall, storeVars, ragCall, database, pool>>

NextEmbed == EmbedBatchesCall

SpecEmbed == InitEmbed /\ [][NextEmbed]_vars

(***************************************************************************)
(* Specification SpecRag: calls of RAGService._build_context               *)
(***************************************************************************)
\* lengths of retrieved chunk texts: empty, and those whose block is of 1500 and
\* of 1501 tokens
ChunkTextLens == {0, 5966, 5967}

RetrievedChunks ==
  {[content |-> Rep("x", n),
    metadata |-> [file_path |-> p, language |-> LangText, chunk_type |-> "text_chunk"],
    distance |-> 1] : n \in ChunkTextLens, p \in {<<"a">>, <<"b", "b">>}}

ChunkLists == LineSeqs(RetrievedChunks, MaxChunks)

InitRag ==
  /\ splitter = StoreSplitter
  /\ splitCall = NoCall
  /\ collections = <<>>
  /\ nextId = 1
  /\ lastCall = NoCall
  /\ addedSince = <<>>
  /\ embedCall = NoCall
  /\ ragCall = NoCall
  /\ database = EmptyDatabase
  /\ pool = IdlePool

\* _build_context(chunks), lines 72-91
BuildContextCall ==
  /\ ragCall.op = "none"
  /\ \E chunks \in ChunkLists :
       ragCall' = [op |-> "build_context", chunks |-> chunks,
                   returned |-> BuildContext(chunks)]
  /\ UNCHANGED <<splitter, splitCall, storeVars, embedCall, database, pool>>

\* results as search_similar formats them, of three distances; the block of the
\* long ones is of 1501 tokens
RankedPool ==
  {[content |-> Rep("x", n),
    metadata |-> [file_path |-> p, language |-> LangText, chunk_type |-> "text_chunk"],
    distance |-> d] :
     <<n, p, d>> \in {<<0, <<"a">>, 0>>, <<5967, <<"a">>, 1>>,
                      <<5967, <<"b", "b">>, 1>>, <<0, <<"b", "b">>, 2>>}}

\* the n_results answer_question asks search_similar for
ANSWER_N_RESULTS == 8

\* what search_similar(collection_name, question, n_results=8) may hand back: an
\* error, or up to n_results results in order of non-decreasing distance
SearchOutcomes ==
  {[raised |-> TRUE, returned |-> <<>>]} \cup
  {[raised |-> FALSE, returned |-> ls] :
     ls \in {l \in LineSeqs(RankedPool, Min(MaxRetrieved, ANSWER_N_RESULTS)) :
               \A k \in 1..(Len(l) - 1) : l[k].distance <= l[k + 1].distance}}

\* what the chat completion may hand back: an error, or an answer text
LlmOutcomes ==
  {[raised |-> TRUE, content |-> <<>>], [raised |-> FALSE, content |-> <<"o", "k">>]}

\* the longest conversation history passed to answer_question
MaxHistory == 12

TurnMarks == <<"a", "b", "c", "d", "e", "f", "g", "h", "i", "j", "k", "l", "m", "n">>

\* a conversation of n turns, alternating user and assistant, each with its own
\* content
History(n) ==
  [k \in 1..n |-> [role |-> IF k % 2 = 1 THEN "user" ELSE "assistant",
                   content |-> <<TurnMarks[k]>>]]

\* routes.py, lines 255-258: the history sent by the client, of no, few, exactly ten
\* and more than ten turns
Histories ==
  {<<>>, <<[role |-> "user", content |-> <<"h">>],
           [role |-> "assistant", content |-> <<"i">>]>>,
   History(10), History(MaxHistory)}

RepositoryInfos == {<<>>, [name |-> <<"r">>]}

\* answer_question(collection_name, question, conversation_history,
\* repository_info), lines 17-70
AnswerQuestionCall ==
  /\ ragCall.op = "none"
  /\ \E search \in SearchOutcomes, llm \in LlmOutcomes,
        conversation_history \in Histories, repository_info \in RepositoryInfos :
       \E r \in {AnswerQuestion(search, <<"q">>, conversation_history,
                                 repository_info, llm)} :
         ragCall' = [op |-> "answer_question", question |-> <<"q">>,
                     search |-> search, chunks |-> search.returned, llm |-> llm,
                     conversation_history |-> conversation_history,
                     repository_info |-> repository_info,
                     raised |-> r.raised, messages |-> r.messages,
                     returned |-> r.returned]
  /\ UNCHANGED <<splitter, splitCall, storeVars, embedCall, database, pool>>

NextRag == BuildContextCall \/ AnswerQuestionCall

SpecRag == InitRag /\ [][NextRag]_vars

(***************************************************************************)
(* Properties of split_code                                                *)
(***************************************************************************)
SplitReturned == splitCall.op = "split_code"

\* C1: for every non-empty content and every language, split_code returns at least
\* one chunk, and every chunk has 0 <= start_line <= end_line <= line count - 1
C1_ChunksWithinFile ==
  (SplitReturned /\ Len(splitCall.content) > 0) =>
    /\ Len(splitCall.returned) >= 1
    /\ \A k \in 1..Len(splitCall.returned) :
         LET c == splitCall.returned[k]
         IN /\ 0 <= c.start_line
            /\ c.start_line <= c.end_line
            /\ c.end_line <= LineCount(splitCall.content) - 1

\* C1 witness: a non-empty file of several lines split into several chunks by the
\* sliding window
C1_Witness ==
  /\ SplitReturned
  /\ Len(splitCall.content) > 0
  /\ Len(splitCall.returned) >= 3
  /\ splitCall.returned[1].type = "text_chunk"

\* the call took the sliding-window path because its language has no parser and is
\* not markdown
NoParserNotMarkdown ==
  /\ SplitReturned
  /\ splitCall.language \notin splitter.parsers
  /\ splitCall.language # LangMarkdown

\* C5: the sliding-window chunks cover every line with no gap: the first starts at
\* line 0, the last ends at the last line, each next one starts at or before the
\* line after its predecessor's end
C5_WindowsCoverFile ==
  NoParserNotMarkdown =>
    LET r == splitCall.returned
    IN /\ Len(r) >= 1
       /\ r[1].start_line = 0
       /\ r[Len(r)].end_line = LineCount(splitCall.content) - 1
       /\ \A k \in 1..(Len(r) - 1) : r[k + 1].start_line <= r[k].end_line + 1

\* C5 witness: a sliding-window split whose second window overlaps the first in two
\* lines
C5_Witness ==
  /\ NoParserNotMarkdown
  /\ Len(splitCall.returned) >= 2
  /\ splitCall.returned[2].start_line = splitCall.returned[1].end_line - 1

\* C25 as claimed: every sliding-window chunk of more than one line has a total
\* character count (the sum of its line lengths) of at most chunk_size
C25_MultiLineWindowsWithinBudget ==
  NoParserNotMarkdown =>
    \A k \in 1..Len(splitCall.returned) :
      LET c == splitCall.returned[k]
          lines == SplitLines(splitCall.content)
      IN c.end_line > c.start_line =>
           SumLen(SubSeq(lines, c.start_line + 1, c.end_line + 1))
             <= splitter.chunk_size

\* the node kinds of a function, class or method declaration in the python,
\* javascript and typescript grammars
DeclarationKinds ==
  {"function_definition", "class_definition", "method_definition",
   "function_declaration", "class_declaration"}

\* the top-level declarations of the parsed file, in source order
Declarations == SelectSeq(splitCall.tree.nodes, LAMBDA n : n.type \in DeclarationKinds)

\* the file was parsed by a registered parser
ParsedByParser ==
  /\ SplitReturned
  /\ splitCall.language \in splitter.parsers
  /\ ~splitCall.tree.raises

\* C12 as claimed: for every language with a registered parser and a file with at
\* least one top-level declaration, split_code returns exactly one chunk per
\* declaration, in source order, each spanning that declaration's lines
C12_OneChunkPerDeclaration ==
  (ParsedByParser /\ Len(Declarations) >= 1) =>
    /\ Len(splitCall.returned) = Len(Declarations)
    /\ \A k \in 1..Len(Declarations) :
         /\ splitCall.returned[k].start_line = Declarations[k].start_line
         /\ splitCall.returned[k].end_line = Declarations[k].end_line

\* the parser of the file's language raised, or built a tree without any top-level
\* node of a structural type
StructuralSplitFailed ==
  /\ SplitReturned
  /\ splitCall.language \in splitter.parsers
  /\ \/ splitCall.tree.raises
     \/ \A k \in 1..Len(splitCall.tree.nodes) :
          splitCall.tree.nodes[k].type \notin StructuralTypes

\* C13: when structural parsing raises or finds no matching top-level declaration,
\* split_code returns what the text-based path returns for the same content,
\* language and file path
C13_FallbackEqualsTextSplit ==
  StructuralSplitFailed =>
    splitCall.returned = SplitByText(splitter, splitCall.content, splitCall.language,
                                     splitCall.file_path)

\* C13 witness: a python file parsed into top-level nodes none of which is
\* structural, returned as sliding-window chunks
C13_Witness ==
  /\ StructuralSplitFailed
  /\ ~splitCall.tree.raises
  /\ Len(splitCall.tree.nodes) >= 1
  /\ splitCall.language = LangPython
  /\ Len(splitCall.returned) >= 1
  /\ splitCall.returned[1].type = "text_chunk"

\* the call split a markdown file
MarkdownSplit == SplitReturned /\ splitCall.language = LangMarkdown

\* the first character of the line that is not white space is '#'
HeadingLine(line) ==
  \E i \in 1..Len(line) :
    line[i] = "#" /\ \A j \in 1..(i - 1) : line[j] \in Whitespace

\* the indices of the lines at which a section begins: the heading lines, and
\* line 0, where the text before the first heading begins
SectionStarts ==
  LET lines == SplitLines(splitCall.content)
  IN {0} \cup {i \in 0..(Len(lines) - 1) : HeadingLine(lines[i + 1])}

\* C14: for markdown, chunks begin exactly at the heading lines (whatever their
\* depth) and at the start of the file; each ends on the line before the next
\* begins and the last on the last line; all are markdown_section chunks, one per
\* section
C14_SectionsAtHeadings ==
  MarkdownSplit =>
    LET r == splitCall.returned
    IN /\ {r[k].start_line : k \in 1..Len(r)} = SectionStarts
       /\ Len(r) = Cardinality(SectionStarts)
       /\ \A k \in 1..(Len(r) - 1) : r[k].end_line = r[k + 1].start_line - 1
       /\ r[Len(r)].end_line = LineCount(splitCall.content) - 1
       /\ \A k \in 1..Len(r) : r[k].type = "markdown_section"

\* C14 witness: a markdown file that opens with plain text and has an indented
\* heading of depth two and a heading of depth one, split into three sections
C14_Witness ==
  /\ MarkdownSplit
  /\ Len(splitCall.returned) = 3
  /\ splitCall.returned[1].title = Introduction
  /\ \E k \in 2..3 : splitCall.returned[k].content[1] = " "
  /\ \E k \in 2..3 : splitCall.returned[k].content[1] = "#"

\* C26: for markdown the sections partition the file: the first starts at line 0,
\* the last ends at the last line, each starts on the line after its predecessor's
\* end, so every line index belongs to exactly one chunk, and each chunk's content
\* is the file's lines start_line..end_line joined by newlines
C26_SectionsPartitionFile ==
  MarkdownSplit =>
    LET r == splitCall.returned
        lines == SplitLines(splitCall.content)
    IN /\ Len(r) >= 1
       /\ r[1].start_line = 0
       /\ r[Len(r)].end_line = Len(lines) - 1
       /\ \A k \in 1..(Len(r) - 1) : r[k + 1].start_line = r[k].end_line + 1
       /\ \A i \in 0..(Len(lines) - 1) :
            Cardinality({k \in 1..Len(r) :
                           r[k].start_line <= i /\ i <= r[k].end_line}) = 1
       /\ \A k \in 1..Len(r) :
            /\ r[k].start_line <= r[k].end_line
            /\ r[k].content = JoinLines(SubSeq(lines, r[k].start_line + 1,
                                               r[k].end_line + 1))

\* C26 witness: a markdown file split into three sections of which one spans
\* several lines
C26_Witness ==
  /\ MarkdownSplit
  /\ Len(splitCall.returned) = 3
  /\ \E k \in 1..3 : splitCall.returned[k].end_line > splitCall.returned[k].start_line

\* str.lstrip(chars): the line without its leading characters of chars
LeadingStripped(s, chars) ==
  LET keep == {i \in 1..Len(s) : s[i] \notin chars}
  IN IF keep = {} THEN <<>>
     ELSE SubSeq(s, CHOOSE i \in keep : \A j \in keep : i <= j, Len(s))

\* C15 as claimed: the title of every section that begins with a heading line is
\* that line with its leading '#' and space characters stripped and the rest of
\* the line unchanged
C15_TitleIsHeadingStripped ==
  MarkdownSplit =>
    \A k \in 1..Len(splitCall.returned) :
      LET c == splitCall.returned[k]
          heading == SplitLines(c.content)[1]
      IN HeadingLine(heading) => c.title = LeadingStripped(heading, {"#", " "})

\* C16: in the sliding-window split each window after the first starts with exactly
\* the trailing max(1, floor(L * chunk_overlap / chunk_size)) lines of the window
\* of L lines before it; under chunk_size 50 and chunk_overlap 10 the file of 12
\* lines of 10 characters yields exactly 3 windows, the last two beginning with
\* the last 1-2 lines of their predecessors
C16_OverlapIsProportional ==
  NoParserNotMarkdown =>
    LET r == splitCall.returned
    IN /\ \A k \in 1..(Len(r) - 1) :
            LET prev == SplitLines(r[k].content)
                next == SplitLines(r[k + 1].content)
                L == r[k].end_line - r[k].start_line + 1
                n == Max(1, (L * splitter.chunk_overlap) \div splitter.chunk_size)
            IN /\ Len(prev) = L
               /\ n <= L /\ n <= Len(next)
               /\ r[k + 1].start_line = r[k].end_line - n + 1
               /\ SubSeq(next, 1, n) = SubSeq(prev, L - n + 1, L)
       /\ splitCall.content = ScenarioFile =>
            /\ Len(r) = 3
            /\ \A k \in 1..2 : r[k].end_line - r[k + 1].start_line + 1 \in 1..2

\* C16 witness: the scenario file split into its three windows, of lines 0-4, 4-8
\* and 8-11
C16_Witness ==
  /\ NoParserNotMarkdown
  /\ splitCall.content = ScenarioFile
  /\ splitter.chunk_size = 50 /\ splitter.chunk_overlap = 10
  /\ Len(splitCall.returned) = 3
  /\ splitCall.returned[2].start_line = 4 /\ splitCall.returned[2].end_line = 8
  /\ splitCall.returned[3].start_line = 8 /\ splitCall.returned[3].end_line = 11

(***************************************************************************)
(* Properties of the vector service                                        *)
(***************************************************************************)
EntryIds(n) ==
  [k \in 1..Len(collections[n].entries) |-> collections[n].entries[k].id]

Called(op) == lastCall.op = op

\* C3: a collection holds exactly the entries added since the most recent
\* create_collection of its name (replace, never merge), and a search returns
\* only entries the collection holds
C3_RecreateReplaces ==
  /\ \A n \in DOMAIN collections : EntryIds(n) = addedSince[n].ids
  /\ (Called("search_similar") /\ ~lastCall.raised) =>
       \A i \in 1..Len(lastCall.returned) :
         \E k \in 1..Len(collections[lastCall.collection_name].entries) :
           LET e == collections[lastCall.collection_name].entries[k]
           IN /\ e.document = lastCall.returned[i].content
              /\ e.metadata = lastCall.returned[i].metadata

\* C3 witness: create, add, create, add: the second create discarded entries and
\* the collection holds the ids of the add after it
C3_Witness ==
  \E n \in DOMAIN collections :
    /\ addedSince[n].discarded > 0
    /\ Len(collections[n].entries) > 0
    /\ EntryIds(n) = addedSince[n].ids
    /\ Called("add_documents") /\ ~lastCall.raised /\ lastCall.collection_name = n

\* the names create_collection can give a collection
CreatableNames == {CollectionName(r) : r \in RepoIds}

\* C4 as claimed: search_similar against a name that was never created returns an
\* empty sequence and does not raise
C4_Original ==
  (Called("search_similar") /\ lastCall.collection_name \notin CreatableNames
   /\ lastCall.fault.embed = 0) =>
    (~lastCall.raised /\ lastCall.returned = <<>>)

\* C4 amended: search_similar against a name that does not exist (never created, or
\* deleted) raises to its caller and returns no results
C4_MissingCollectionRaises ==
  (Called("search_similar") /\ lastCall.collection_name \notin DOMAIN collections) =>
    lastCall.raised

\* C4 witness: a search, with nothing failing, against a name no create_collection
\* call can have made, while other collections exist
C4_Witness ==
  /\ Called("search_similar")
  /\ lastCall.collection_name \notin CreatableNames
  /\ lastCall.fault.embed = 0
  /\ lastCall.raised
  /\ DOMAIN collections # {}

\* C6: a search_similar call right after a successful create_collection, on the
\* name it returned, returns an empty sequence and does not raise (when the
\* embedding model does not fail)
C6_SearchAfterCreateIsEmpty ==
  [][(/\ lastCall.op = "create_collection"
      /\ ~lastCall.raised
      /\ lastCall'.op = "search_similar"
      /\ lastCall'.collection_name = lastCall.returned
      /\ lastCall'.fault.embed = 0)
     => (~lastCall'.raised /\ lastCall'.returned = <<>>)]_vars

\* C6 witness: a search right after a create_collection, on the name it returned,
\* returned nothing, in a store where entries had been added under that name
C6_Witness ==
  /\ Called("search_similar")
  /\ lastCall.collection_name \in lastCall.just_created
  /\ ~lastCall.raised
  /\ lastCall.returned = <<>>
  /\ lastCall.collection_name \in DOMAIN collections
  /\ collections[lastCall.collection_name].entries = <<>>
  /\ addedSince[lastCall.collection_name].discarded > 0

\* C7: delete_collection never raises, leaves every other collection as it was,
\* changes nothing when the name does not exist, and leaves the name absent when
\* the store's delete did not fail: a second delete changes nothing
C7_DeleteIdempotent ==
  [][lastCall'.op = "delete_collection" =>
       LET n == lastCall'.collection_name
       IN /\ ~lastCall'.raised
          /\ DOMAIN collections' \subseteq DOMAIN collections
          /\ \A m \in DOMAIN collections \ {n} :
               m \in DOMAIN collections' /\ collections'[m] = collections[m]
          /\ (n \notin DOMAIN collections => collections' = collections)
          /\ (~lastCall'.fault.delete => n \notin DOMAIN collections')]_vars

\* C7 witness: a delete of a missing name completed, with another collection that
\* holds entries in the store
C7_Witness ==
  /\ Called("delete_collection")
  /\ ~lastCall.fault.delete
  /\ lastCall.log = "warning"
  /\ ~lastCall.raised
  /\ lastCall.collection_name \notin DOMAIN collections
  /\ \E m \in DOMAIN collections : Len(collections[m].entries) > 0

\* the chunks split_code returns for the d-th document of the last add_documents
ChunksOfDoc(d) ==
  SplitCode(splitter, lastCall.documents[d].content, lastCall.documents[d].language,
            lastCall.documents[d].path, lastCall.trees[d])

RECURSIVE ChunksBefore(_)
ChunksBefore(d) == IF d <= 1 THEN 0 ELSE ChunksBefore(d - 1) + Len(ChunksOfDoc(d - 1))

\* C8: a successful add_documents returns one id per chunk, in file order and then
\* chunk order; the entry persisted under the k-th id holds the k-th chunk's
\* content and metadata, with chunk_index its position within its file
C8_OneEntryPerChunk ==
  (Called("add_documents") /\ ~lastCall.raised) =>
    LET docs == lastCall.documents
        ids == lastCall.returned
        es == collections[lastCall.collection_name].entries
    IN /\ Len(ids) = ChunksBefore(Len(docs) + 1)
       /\ \A i, j \in 1..Len(ids) : i # j => ids[i] # ids[j]
       /\ Len(es) >= Len(ids)
       /\ \A k \in 1..Len(ids) : es[Len(es) - Len(ids) + k].id = ids[k]
       /\ \A d \in 1..Len(docs) : \A j \in 1..Len(ChunksOfDoc(d)) :
            LET chunk == ChunksOfDoc(d)[j]
                e == es[Len(es) - Len(ids) + ChunksBefore(d) + j]
            IN /\ e.document = chunk.content
               /\ e.metadata.file_path = docs[d].path
               /\ e.metadata.language = docs[d].language
               /\ e.metadata.chunk_type = chunk.type
               /\ e.metadata.start_line = chunk.start_line
               /\ e.metadata.end_line = chunk.end_line
               /\ e.metadata.chunk_index = j - 1

\* C8 witness: an add of two files, the first split into two chunks, into a
\* collection
C8_Witness ==
  /\ Called("add_documents")
  /\ ~lastCall.raised
  /\ Len(lastCall.documents) = 2
  /\ Len(ChunksOfDoc(1)) = 2
  /\ Len(lastCall.returned) = 3

\* C10: a search with limit n returns at most n results, in order of
\* non-decreasing distance
C10_AtMostLimitAscending ==
  (Called("search_similar") /\ ~lastCall.raised) =>
    /\ Len(lastCall.returned) <= lastCall.n_results
    /\ \A i \in 1..(Len(lastCall.returned) - 1) :
         lastCall.returned[i].distance <= lastCall.returned[i + 1].distance

\* C10 witness: a search with limit 2 in a collection of three entries returned
\* two results at different distances, neither in insertion order's first place
C10_Witness ==
  /\ Called("search_similar")
  /\ ~lastCall.raised
  /\ lastCall.n_results = 2
  /\ Len(collections[lastCall.collection_name].entries) = 3
  /\ Len(lastCall.returned) = 2
  /\ lastCall.returned[1].distance < lastCall.returned[2].distance
  /\ lastCall.returned[1].content # collections[lastCall.collection_name].entries[1].document

\* the collection searched by the last call holds an entry with the query as text
QueryIsStoredText ==
  /\ lastCall.collection_name \in DOMAIN collections
  /\ \E k \in 1..Len(collections[lastCall.collection_name].entries) :
       collections[lastCall.collection_name].entries[k].document = lastCall.query

\* C11: with the echo embedding, a search with the exact text of a chunk that
\* add_documents persisted returns first an entry whose content is the query text,
\* at distance 0
C11_ExactTextComesFirst ==
  (Called("search_similar") /\ ~lastCall.raised /\ QueryIsStoredText) =>
    /\ Len(lastCall.returned) >= 1
    /\ lastCall.returned[1].content = lastCall.query
    /\ lastCall.returned[1].distance = 0

\* C11 witness: a search with the text of a chunk that is not the first entry of
\* its collection returned that text first, ahead of a result farther away
C11_Witness ==
  /\ Called("search_similar") /\ ~lastCall.raised /\ QueryIsStoredText
  /\ collections[lastCall.collection_name].entries[1].document # lastCall.query
  /\ Len(lastCall.returned) = 2
  /\ lastCall.returned[1].content = lastCall.query
  /\ lastCall.returned[1].distance = 0
  /\ lastCall.returned[2].distance > 0

\* C19: when chunking, embedding or persistence fails during add_documents the call
\* raises and returns no ids; the ids a call returns are all ids of entries the
\* collection holds
C19_FailedAddRaises ==
  Called("add_documents") =>
    /\ (lastCall.fault.split \/ lastCall.fault.embed # 0 \/ lastCall.fault.add) =>
         (lastCall.raised /\ lastCall.returned = <<>>)
    /\ ~lastCall.raised =>
         \A i \in 1..Len(lastCall.returned) :
           \E k \in 1..Len(collections[lastCall.collection_name].entries) :
             collections[lastCall.collection_name].entries[k].id = lastCall.returned[i]

\* C19 witness: an add of two files into a collection that holds entries, whose
\* persistence step failed: the call raised and returned no ids
C19_Witness ==
  /\ Called("add_documents")
  /\ lastCall.fault.add
  /\ Len(lastCall.documents) = 2
  /\ lastCall.collection_name \in DOMAIN collections
  /\ Len(collections[lastCall.collection_name].entries) > 0
  /\ lastCall.raised
  /\ lastCall.returned = <<>>

\* C20 as claimed: a failure of the store's delete on a collection that exists (so
\* not the not-found condition) is raised to the caller, by delete_collection and
\* by create_collection alike
C20_DeleteFailuresSurface ==
  /\ (Called("delete_collection") /\ lastCall.fault.delete
      /\ lastCall.collection_name \in DOMAIN collections) => lastCall.raised
  /\ (Called("create_collection") /\ lastCall.fault.delete /\ ~lastCall.changed
      /\ CollectionName(lastCall.repo_id) \in DOMAIN collections) => lastCall.raised

(***************************************************************************)
(* Properties of the batched embedding loop                                *)
(***************************************************************************)
EmbeddedAll == embedCall.op = "embed_batches" /\ ~embedCall.raised

\* C9: for any number n of chunk texts the batched loop yields n vectors, the i-th
\* being the embedding of the i-th text
C9_BatchingKeepsOrder ==
  EmbeddedAll =>
    /\ Len(embedCall.all_embeddings) = Len(embedCall.all_chunks)
    /\ \A i \in 1..Len(embedCall.all_chunks) :
         embedCall.all_embeddings[i] = Embed(embedCall.all_chunks[i])

\* C9 witness: 65 texts, embedded in two full batches and one of a single text
C9_Witness ==
  /\ EmbeddedAll
  /\ Len(embedCall.all_chunks) = 2 * BATCH_SIZE + 1
  /\ Len(embedCall.all_embeddings) = 2 * BATCH_SIZE + 1

(***************************************************************************)
(* Properties of _build_context                                            *)
(***************************************************************************)
\* C2 as claimed: the token count of the whole returned context, by count_tokens,
\* never exceeds max_context_tokens
C2_ContextWithinBudget ==
  ragCall.op = "build_context" =>
    CountTokens(ragCall.returned) <= MAX_CONTEXT_TOKENS

ContextBuilt == ragCall.op = "build_context"

\* the token estimate of the block of the k-th retrieved chunk
BlockTokens(k) == CountTokens(ContextBlock(ragCall.chunks[k]))

\* the cumulative estimate of the blocks of the first m retrieved chunks
RECURSIVE PrefixTokens(_)
PrefixTokens(m) == IF m = 0 THEN 0 ELSE PrefixTokens(m - 1) + BlockTokens(m)

\* the length of the longest prefix of the ranked results whose cumulative estimate
\* stays within the budget
FittingPrefix ==
  CHOOSE m \in 0..Len(ragCall.chunks) :
    /\ PrefixTokens(m) <= MAX_CONTEXT_TOKENS
    /\ m < Len(ragCall.chunks) => PrefixTokens(m + 1) > MAX_CONTEXT_TOKENS

\* C17: the context is made of the complete blocks of the longest prefix of the
\* ranked results whose cumulative per-block token estimate is within
\* max_context_tokens, in ranked order; the block that would exceed the budget and
\* every later one are left out
C17_ContextIsLongestFittingPrefix ==
  ContextBuilt =>
    ragCall.returned =
      JoinLines([k \in 1..FittingPrefix |-> ContextBlock(ragCall.chunks[k])])

\* C17 witness: of three results the second did not fit, and the third, which
\* would have fitted, is left out with it
C17_Witness ==
  /\ ContextBuilt
  /\ Len(ragCall.chunks) = 3
  /\ FittingPrefix = 1
  /\ PrefixTokens(1) + BlockTokens(3) <= MAX_CONTEXT_TOKENS
  /\ ragCall.returned = ContextBlock(ragCall.chunks[1])

Answered == ragCall.op = "answer_question" /\ ~ragCall.raised

\* C18: answer_question reports as used sources the first min(3, n) of the n
\* retrieved results, in rank order, each with relevance_score = 1 - distance,
\* however many blocks fitted into the context
C18_UsedSourcesAreTopThree ==
  Answered =>
    LET used == ragCall.returned.context_used
        n == Len(ragCall.chunks)
    IN /\ Len(used) = (IF n < 3 THEN n ELSE 3)
       /\ \A k \in 1..Len(used) :
            /\ used[k].file_path = ragCall.chunks[k].metadata.file_path
            /\ used[k].relevance_score = 1 - ragCall.chunks[k].distance

\* C18 witness: four results retrieved, only the first two blocks fitted into the
\* context, three sources reported with different relevance scores
C18_Witness ==
  /\ Answered
  /\ Len(ragCall.chunks) = 4
  /\ FittingPrefix = 2
  /\ Len(ragCall.returned.context_used) = 3
  /\ ragCall.returned.context_used[1].relevance_score = 1
  /\ ragCall.returned.context_used[3].relevance_score = 0

\* the number of chunks split_code produces for the files of one add_documents
RECURSIVE ChunksUpTo(_, _, _)
ChunksUpTo(documents, trees, d) ==
  IF d = 0 THEN 0
  ELSE Len(SplitCode(splitter, documents[d].content, documents[d].language,
                     documents[d].path, trees[d]))
       + ChunksUpTo(documents, trees, d - 1)

TotalChunks(documents, trees) == ChunksUpTo(documents, trees, Len(documents))

\* the ids of all entries of all collections of a store
StoredIds(store) ==
  UNION {{store[n].entries[k].id : k \in 1..Len(store[n].entries)} :
           n \in DOMAIN store}

(***************************************************************************)
(* add_documents over several embedding batches                            *)
(***************************************************************************)
\* a markdown file of n one-line sections, which split_code splits into n chunks
DocSections(n) ==
  [path |-> <<"s", ".", "m", "d">>,
   content |-> JoinLines([k \in 1..n |-> <<"#", " ", "T">>]),
   language |-> LangMarkdown, size |-> 4 * n - 1]

\* file lists that make two batches and three batches
BatchDocLists ==
  {<<DocSections(BATCH_SIZE + 1)>>,
   <<DocSections(BATCH_SIZE + 1), DocSections(MaxTexts - BATCH_SIZE - 1)>>}

\* no failure, the embedding of one batch fails, or collection.add fails
BatchFaults ==
  {[split |-> FALSE, embed |-> fe, add |-> FALSE] : fe \in FailingBatches}
  \cup {[split |-> FALSE, embed |-> 0, add |-> TRUE]}

\* add_documents(collection_name, documents), lines 61-113, with enough files for
\* several batches; markdown has no parser, so no file has a syntax tree
AddBatchesCall ==
  /\ Ready
  /\ nextId <= MaxTexts
  /\ \E collection_name \in StoreNames, documents \in BatchDocLists,
     fault \in BatchFaults :
    \E trees \in {[k \in 1..Len(documents) |-> NoTree]} :
      \E r \in {AddDocuments(collections, splitter, collection_name, documents,
                              trees, nextId, fault)} :
        /\ collections' = r.store
        /\ nextId' = nextId + Len(r.returned)
        /\ lastCall' = [op |-> "add_documents", collection_name |-> collection_name,
                        documents |-> documents, trees |-> trees, fault |-> fault,
                        raised |-> r.raised, returned |-> r.returned,
                        changed |-> r.store # collections]
        /\ addedSince' = IF r.raised THEN addedSince
                         ELSE [addedSince EXCEPT ![collection_name].ids = @ \o r.returned]
        /\ UNCHANGED <<splitter, splitCall, otherVars>>

NextBatch ==
  \/ CreateCollectionCall
  \/ AddBatchesCall

SpecBatch == InitStore /\ [][NextBatch]_vars

\* the number of embedding batches of n chunks
BatchCount(n) == (n + BATCH_SIZE - 1) \div BATCH_SIZE

\* C23: when the embedding of any batch of an add_documents fails (the first, a
\* middle one or the last), the call raises and every collection holds exactly the
\* entries it held before the call
C23_FailedBatchPersistsNothing ==
  [][(/\ lastCall'.op = "add_documents"
      /\ lastCall'.collection_name \in DOMAIN collections
      /\ lastCall'.fault.embed \in
            1..BatchCount(TotalChunks(lastCall'.documents, lastCall'.trees))) =>
       /\ lastCall'.raised
       /\ lastCall'.returned = <<>>
       /\ collections' = collections]_vars

\* C23 witness: an add of three batches whose last batch failed, into a collection
\* that held entries, which it still holds
C23_Witness ==
  /\ Called("add_documents")
  /\ lastCall.raised
  /\ TotalChunks(lastCall.documents, lastCall.trees) > 2 * BATCH_SIZE
  /\ lastCall.fault.embed = 3
  /\ lastCall.collection_name \in DOMAIN collections
  /\ Len(collections[lastCall.collection_name].entries) > 0

(***************************************************************************)
(* BenchmarkService._benchmark_repository_processing                       *)
(***************************************************************************)
\* str.lower() on the letters the configured names use
Lower(s) ==
  [i \in 1..Len(s) |->
     CASE s[i] = "A" -> "a"
       [] s[i] = "B" -> "b"
       [] s[i] = "R" -> "r"
       [] OTHER -> s[i]]

\* repo_config['name'], lines 56-95 and 162: a configured name in short, and one
\* with a hyphen
BenchmarkRepoNames == {<<"R">>, <<"a", "-", "B">>}

\* int(time.time()) as the f-string prints it
TimeStamps == {<<"1", "7">>}

\* _benchmark_repository_processing, line 187
BenchmarkCollectionName(name, now) ==
  <<"b", "e", "n", "c", "h", "m", "a", "r", "k", "_">> \o Lower(name)
  \o <<"_">> \o now

\* the ids added since the last create, after create_collection(repo_id) took the
\* store from before to after
AddedAfterCreate(before, after, added, repo_id, raised) ==
  [n \in DOMAIN after |->
     IF n = CollectionName(repo_id) /\ ~raised
     THEN [ids |-> <<>>,
           discarded |-> IF n \in DOMAIN before
                         THEN added[n].discarded + Len(before[n].entries)
                         ELSE 0]
     ELSE added[n]]

\* _benchmark_repository_processing, lines 186-189: create_collection's return
\* value is dropped and add_documents is given the name create_collection was given
BenchmarkProcess(store, self, collection_name, files_data, trees, next_id, fault) ==
  LET created == CreateCollection(store, collection_name, fault.create)
      added == AddDocuments(created.store, self, collection_name, files_data, trees,
                            next_id, fault.add)
  IN IF created.raised
     THEN [raised |-> TRUE, created |-> created, located |-> FALSE,
           vector_ids |-> <<>>, store |-> created.store]
     ELSE [raised |-> added.raised, created |-> created,
           located |-> collection_name \in DOMAIN created.store,
           vector_ids |-> added.returned, store |-> added.store]

\* _benchmark_repository_processing(repo_config, run_id), lines 162-224, from the
\* files process_repository returned
BenchmarkProcessingCall ==
  /\ Ready
  /\ \E name \in BenchmarkRepoNames, now \in TimeStamps, files_data \in DocLists,
        fd \in BOOLEAN, fc \in BOOLEAN, fault \in AddFaults :
       \E trees \in TreeLists(splitter, files_data) :
         \E r \in {BenchmarkProcess(collections, splitter,
                                     BenchmarkCollectionName(name, now), files_data,
                                     trees, nextId,
                                     [create |-> [delete |-> fd, create |-> fc],
                                      add |-> fault])} :
           /\ nextId + Len(r.vector_ids) - 1 <= MaxIds
           /\ collections' = r.store
           /\ nextId' = nextId + Len(r.vector_ids)
           /\ lastCall' = [op |-> "benchmark_repository_processing",
                           name |-> name,
                           collection_name |-> BenchmarkCollectionName(name, now),
                           files_data |-> files_data,
                           create_raised |-> r.created.raised,
                           created |-> r.created.returned,
                           located |-> r.located,
                           raised |-> r.raised,
                           vectors_created |-> Len(r.vector_ids),
                           changed |-> r.store # collections]
           /\ addedSince' =
                LET a == AddedAfterCreate(collections, r.created.store, addedSince,
                                          BenchmarkCollectionName(name, now),
                                          r.created.raised)
                IN IF r.raised \/ ~r.located THEN a
                   ELSE [a EXCEPT ![BenchmarkCollectionName(name, now)].ids =
                                    @ \o r.vector_ids]
           /\ UNCHANGED <<splitter, splitCall, otherVars>>

NextBenchmark ==
  \/ BenchmarkProcessingCall
  \/ CreateCollectionCall

SpecBenchmark == InitStore /\ [][NextBenchmark]_vars

\* C29 as claimed: whenever the benchmark's create_collection succeeds, the
\* add_documents that follows is given the name of the collection it created and
\* locates that collection
C29_AddLocatesCreatedCollection ==
  (Called("benchmark_repository_processing") /\ ~lastCall.create_raised) =>
    /\ lastCall.created = lastCall.collection_name
    /\ lastCall.located

(***************************************************************************)
(* Specification SpecApp: repository submission, the processing task and   *)
(* the chat endpoint, over the tables and the vector store                 *)
(***************************************************************************)
\* core/database.py: Repository.id is a uuid4, printed as hex digits and hyphens
AppRepoIds == {<<"a", "-", "b">>, <<"c">>}

\* a repository id no row has
UnknownRepoId == <<"d">>

\* repo_info['full_name'] as validate_repository returns it
FullNames == {<<"o", "/", "r">>}

\* the rows of the repositories table with the given full_name
ReposNamed(db, full_name) ==
  {id \in DOMAIN db.repositories : db.repositories[id].full_name = full_name}

\* submit_repository, lines 47-120, from the outcome of validate_repository;
\* existing is the row .first() returned (a set of at most one id), id the new
\* row's uuid4
SubmitRepository(db, full_name, existing, id, fails) ==
  IF fails THEN [status_code |-> 400, db |-> db]
  ELSE IF \E x \in existing : db.repositories[x].status \in {"completed", "processing"}
  THEN [status_code |-> 200, db |-> db]
  ELSE [status_code |-> 200,
        db |-> [db EXCEPT
                  !.repositories =
                    [x \in DOMAIN @ \cup {id} |->
                       IF x = id
                       THEN [full_name |-> full_name, name |-> <<"r">>,
                             status |-> "pending"]
                       ELSE @[x]],
                  !.queue = @ \cup {id}]]

SubmitRepositoryCall ==
  /\ Ready
  /\ \E full_name \in FullNames, fails \in BOOLEAN,
        id \in AppRepoIds \ DOMAIN database.repositories :
       \E existing \in (IF ReposNamed(database, full_name) = {} THEN {{}}
                         ELSE {{x} : x \in ReposNamed(database, full_name)}) :
         \E r \in {SubmitRepository(database, full_name, existing, id, fails)} :
           /\ database' = r.db
           /\ lastCall' = [op |-> "submit_repository", full_name |-> full_name,
                           status_code |-> r.status_code,
                           changed |-> r.db # database]
  /\ UNCHANGED <<splitter, splitCall, collections, nextId, addedSince, embedCall,
                 ragCall, pool>>

\* _process_repository_async, lines 52-53, 69, 123-126
WithStatus(db, repo_id, status) ==
  [db EXCEPT !.repositories[repo_id].status = status]

\* _process_repository_async, lines 81-91: the Document rows, one per file, the
\* i-th with vector_ids[i:i+1]
DocumentRows(repo_id, files_data, vector_ids) ==
  [k \in 1..Len(files_data) |->
     [repository_id |-> repo_id,
      file_path |-> files_data[k].path,
      content |-> files_data[k].content,
      language |-> files_data[k].language,
      size |-> files_data[k].size,
      chunk_count |-> 1,
      vector_ids |-> IF k - 1 < Len(vector_ids)
                     THEN Slice(vector_ids, k - 1, k) ELSE <<>>]]

\* _process_repository_async, lines 78-138, from the outcome of add_documents
ProcessAdded(db, repo_id, files_data, created, added, fault) ==
  IF added.raised
  THEN [raised |-> TRUE, db |-> WithStatus(db, repo_id, "failed"),
        store |-> added.store, created |-> created, vector_ids |-> <<>>,
        rows |-> <<>>]
  ELSE [raised |-> fault.docgen,
        db |-> WithStatus([db EXCEPT !.documents =
                             @ \o DocumentRows(repo_id, files_data, added.returned)],
                          repo_id,
                          IF fault.docgen THEN "failed" ELSE "completed"),
        store |-> added.store, created |-> created, vector_ids |-> added.returned,
        rows |-> DocumentRows(repo_id, files_data, added.returned)]

\* _process_repository_async, lines 75-138, from the outcome of create_collection
ProcessCreated(db, self, repo_id, files_data, trees, next_id, created, fault) ==
  IF created.raised
  THEN [raised |-> TRUE, db |-> WithStatus(db, repo_id, "failed"),
        store |-> created.store, created |-> created, vector_ids |-> <<>>,
        rows |-> <<>>]
  ELSE ProcessAdded(db, repo_id, files_data, created,
                    AddDocuments(created.store, self, created.returned, files_data,
                                 trees, next_id, fault.add),
                    fault)

\* _process_repository_async(task, repo_id, repo_url), lines 43-138; files_data is
\* what process_repository returned for the clone
ProcessRepository(db, store, self, repo_id, files_data, trees, next_id, fault) ==
  IF repo_id \notin DOMAIN db.repositories
  THEN [raised |-> TRUE, db |-> db, store |-> store,
        created |-> [raised |-> TRUE, returned |-> <<>>, store |-> store],
        vector_ids |-> <<>>, rows |-> <<>>]
  ELSE IF fault.github
  THEN [raised |-> TRUE, db |-> WithStatus(db, repo_id, "failed"), store |-> store,
        created |-> [raised |-> TRUE, returned |-> <<>>, store |-> store],
        vector_ids |-> <<>>, rows |-> <<>>]
  ELSE ProcessCreated(db, self, repo_id, files_data, trees, next_id,
                      CreateCollection(store, repo_id, fault.create), fault)

NoAddFault == [split |-> FALSE, embed |-> 0, add |-> FALSE]

NoCreateFault == [delete |-> FALSE, create |-> FALSE]

\* what can fail in one run of the task: nothing, the clone, the deletion of the
\* old collection, its creation, the split, the embedding, the persisting, the
\* documentation
ProcessFaults ==
  {[github |-> g, create |-> NoCreateFault, add |-> NoAddFault, docgen |-> d] :
     g \in BOOLEAN, d \in BOOLEAN}
  \cup {[github |-> FALSE, create |-> [delete |-> fd, create |-> fc],
         add |-> NoAddFault, docgen |-> FALSE] : fd \in BOOLEAN, fc \in BOOLEAN}
  \cup {[github |-> FALSE, create |-> NoCreateFault, add |-> a, docgen |-> FALSE] :
         a \in AddFaults}

\* process_repository_task(repo_id, repo_url), lines 38-41, for a submitted task
ProcessRepositoryCall ==
  /\ Ready
  /\ \E repo_id \in database.queue, files_data \in DocLists, fault \in ProcessFaults :
       \E trees \in TreeLists(splitter, files_data) :
         \E r \in {ProcessRepository([database EXCEPT !.queue = @ \ {repo_id}],
                                      collections, splitter, repo_id, files_data,
                                      trees, nextId, fault)} :
           /\ nextId + Len(r.vector_ids) - 1 <= MaxIds
           /\ database' = r.db
           /\ collections' = r.store
           /\ nextId' = nextId + Len(r.vector_ids)
           /\ lastCall' = [op |-> "process_repository", repo_id |-> repo_id,
                           files_data |-> files_data, trees |-> trees,
                           fault |-> fault, raised |-> r.raised,
                           vector_ids |-> r.vector_ids, rows |-> r.rows,
                           changed |-> TRUE]
           /\ addedSince' =
                LET a == AddedAfterCreate(collections, r.created.store, addedSince,
                                          repo_id, r.created.raised)
                IN IF r.created.raised \/ r.vector_ids = <<>> THEN a
                   ELSE [a EXCEPT ![CollectionName(repo_id)].ids = @ \o r.vector_ids]
  /\ UNCHANGED <<splitter, splitCall, embedCall, ragCall, pool>>

\* the most conversations and messages the tables hold
MaxConversations == 2

MaxMessages == 4

\* the outcome of the endpoint's body when it raises HTTPException(code)
HttpRaised(code, db) ==
  [raised |-> TRUE, http |-> code, db |-> db, queries |-> <<>>]

\* chat_with_repository, line 233: the title of a new conversation
ConversationTitle(content) ==
  IF Len(content) > 50 THEN SubSeq(content, 1, 50) \o <<".", ".", ".">> ELSE content

\* chat_with_repository, lines 250-258: the conversation's messages in the order
\* they were created, as role and content
ConversationHistory(db, conversation_id) ==
  LET rows == SelectSeq(db.messages, LAMBDA m : m.conversation_id = conversation_id)
  IN [k \in 1..Len(rows) |-> [role |-> rows[k].role, content |-> rows[k].content]]

\* chat_with_repository, lines 275-308, from the outcome of answer_question; the
\* suggested questions of a first message take a second search and do not raise
ChatAnswered(db, collection_name, content, conversation_id, first, result) ==
  IF result.raised
  THEN [raised |-> TRUE, http |-> 0, db |-> db, queries |-> <<collection_name>>]
  ELSE [raised |-> FALSE, http |-> 0,
        db |-> [db EXCEPT !.messages =
                  @ \o <<[conversation_id |-> conversation_id, role |-> "user",
                           content |-> content],
                         [conversation_id |-> conversation_id, role |-> "assistant",
                          content |-> result.returned.answer]>>],
        queries |-> IF first THEN <<collection_name, collection_name>>
                    ELSE <<collection_name>>]

\* chat_with_repository, lines 250-308, in the conversation found or created
ChatInConversation(db, store, repo_id, content, conversation_id, fault) ==
  ChatAnswered(db, CollectionName(repo_id), content, conversation_id,
               Len(ConversationHistory(db, conversation_id)) = 0,
               AnswerQuestion(
                 SearchSimilar(store, CollectionName(repo_id), content,
                               ANSWER_N_RESULTS, NoFilter, fault.search),
                 content, ConversationHistory(db, conversation_id),
                 [name |-> db.repositories[repo_id].name], fault.llm))

\* chat_with_repository, lines 219-308: the body of the try; conversation_id 0
\* is None
ChatBody(db, store, repo_id, content, conversation_id, fault) ==
  IF repo_id \notin DOMAIN db.repositories THEN HttpRaised(404, db)
  ELSE IF db.repositories[repo_id].status # "completed" THEN HttpRaised(400, db)
  ELSE IF conversation_id = 0
  THEN ChatInConversation(
         [db EXCEPT !.conversations =
            Append(@, [repository_id |-> repo_id,
                       title |-> ConversationTitle(content)])],
         store, repo_id, content, Len(db.conversations) + 1, fault)
  ELSE IF ~(/\ conversation_id \in 1..Len(db.conversations)
            /\ db.conversations[conversation_id].repository_id = repo_id)
  THEN HttpRaised(404, db)
  ELSE ChatInConversation(db, store, repo_id, content, conversation_id, fault)

\* chat_with_repository, lines 218-312: except Exception catches what the body
\* raised, an HTTPException included, and raises HTTPException(500)
ChatResponse(body) ==
  [status_code |-> IF body.raised THEN 500 ELSE 200,
   caught |-> body.http, db |-> body.db, queries |-> body.queries]

\* chat_with_repository, lines 212-312
ChatWithRepository(db, store, repo_id, content, conversation_id, fault) ==
  ChatResponse(ChatBody(db, store, repo_id, content, conversation_id, fault))

ChatFaults ==
  {[search |-> [embed |-> fe], llm |-> llm] : fe \in 0..1, llm \in LlmOutcomes}

\* message.content
ChatTexts == {<<"#">>}

\* POST /repositories/{repo_id}/chat
ChatCall ==
  /\ Ready
  /\ Len(database.messages) + 2 <= MaxMessages
  /\ \E repo_id \in AppRepoIds \cup {UnknownRepoId}, content \in ChatTexts,
        conversation_id \in 0..MaxConversations, fault \in ChatFaults :
       \E r \in {ChatWithRepository(database, collections, repo_id, content,
                                     conversation_id, fault)} :
         /\ Len(r.db.conversations) <= MaxConversations
         /\ database' = r.db
         /\ lastCall' = [op |-> "chat", repo_id |-> repo_id, content |-> content,
                         conversation_id |-> conversation_id,
                         status_before |->
                           IF repo_id \in DOMAIN database.repositories
                           THEN database.repositories[repo_id].status
                           ELSE "unknown",
                         status_code |-> r.status_code, caught |-> r.caught,
                         queries |-> r.queries,
                         messages_before |-> Len(database.messages),
                         changed |-> r.db # database]
  /\ UNCHANGED <<splitter, splitCall, collections, nextId, addedSince, embedCall,
                 ragCall, pool>>

NextApp ==
  \/ SubmitRepositoryCall
  \/ ProcessRepositoryCall
  \/ ChatCall

SpecApp == InitStore /\ [][NextApp]_vars

\* C27 as claimed: after a completed processing run, every id in a Document
\* row's vector_ids identifies an entry of the repository's collection whose
\* metadata file_path is the row's file_path
C27_VectorIdsPointToOwnFile ==
  (Called("process_repository") /\ ~lastCall.raised) =>
    \A k \in 1..Len(lastCall.rows) :
      \A j \in 1..Len(lastCall.rows[k].vector_ids) :
        \E i \in 1..Len(collections[CollectionName(lastCall.repo_id)].entries) :
          LET e == collections[CollectionName(lastCall.repo_id)].entries[i]
          IN /\ e.id = lastCall.rows[k].vector_ids[j]
             /\ e.metadata.file_path = lastCall.rows[k].file_path

\* C28 as claimed: the chat endpoint answers 404 for an unknown repository and
\* 400 for one whose status is not completed, and in both cases issues no vector
\* query and persists no message
C28_ChatRejectsUnready ==
  (Called("chat") /\ lastCall.status_before # "completed") =>
    /\ lastCall.status_code =
         (IF lastCall.status_before = "unknown" THEN 404 ELSE 400)
    /\ lastCall.queries = <<>>
    /\ Len(database.messages) = lastCall.messages_before

(***************************************************************************)
(* Specification SpecPool: one add_documents and one search_similar        *)
(* coroutine on the event loop, their embeddings run by the executor       *)
(***************************************************************************)
\* VectorService.__init__, line 29: ThreadPoolExecutor(max_workers=4)
MAX_WORKERS == 4

\* the most embedding batches of the add_documents call
MaxBatches == 5

\* the executor's task for the k-th embedding of a call
Task(owner, k) == [owner |-> owner, k |-> k]

\* the tasks of a call that are queued or running
Outstanding(p, owner) ==
  {p.queue[i] : i \in {j \in 1..Len(p.queue) : p.queue[j].owner = owner}}
  \cup {t \in p.running : t.owner = owner}

\* add_documents submitting every batch before awaiting any
SubmitAllBatches(p) ==
  [p EXCEPT !.queue = @ \o [i \in 1..(p.add.n - p.add.k) |-> Task("add", p.add.k + i)],
            !.add = [pc |-> "await", k |-> p.add.n, n |-> p.add.n]]

\* add_documents, lines 95-97, and _generate_embeddings, lines 156-161: the loop
\* hands the next batch to the executor and awaits it
SubmitNextBatch(p) ==
  [p EXCEPT !.queue = Append(@, Task("add", p.add.k + 1)),
            !.add = [pc |-> "await", k |-> p.add.k + 1, n |-> p.add.n]]

PoolFrame == UNCHANGED <<splitter, splitCall, storeVars, embedCall, ragCall, database>>

\* add_documents, lines 61-91: the call begins; its chunks make n batches
AddDocumentsStart ==
  /\ pool.add.pc = "idle"
  /\ \E n \in 0..MaxBatches : pool' = [pool EXCEPT !.add = [pc |-> "loop", k |-> 0, n |-> n]]
  /\ PoolFrame

\* add_documents, lines 95-97: the next iteration of the batch loop
AddSubmitBatch ==
  /\ pool.add.pc = "loop"
  /\ pool.add.k < pool.add.n
  /\ pool' = SubmitNextBatch(pool)
  /\ PoolFrame

\* add_documents, lines 97-98 and 111-113: the awaited batch is done; the loop goes
\* on, or the call raises when the embedding raised
AddResume ==
  /\ pool.add.pc = "await"
  /\ \E f \in pool.finished :
       /\ f.task = Task("add", pool.add.k)
       /\ pool' = [pool EXCEPT !.finished = @ \ {f},
                               !.add.pc = IF f.ok THEN "loop" ELSE "failed"]
  /\ PoolFrame

\* add_documents, lines 100-109: after the last batch, collection.add and return
AddPersist ==
  /\ pool.add.pc = "loop"
  /\ pool.add.k = pool.add.n
  /\ pool' = [pool EXCEPT !.add.pc = "done"]
  /\ PoolFrame

\* search_similar, lines 124-127: the call begins and hands its one embedding to
\* the executor
SearchSimilarStart ==
  /\ pool.query.pc = "idle"
  /\ pool' = [pool EXCEPT !.queue = Append(@, Task("query", 1)),
                          !.query.pc = "await"]
  /\ PoolFrame

\* search_similar, lines 127-151: the embedding is done; collection.query and
\* return, or raise when the embedding raised
SearchSimilarResume ==
  /\ pool.query.pc = "await"
  /\ \E f \in pool.finished :
       /\ f.task = Task("query", 1)
       /\ pool' = [pool EXCEPT !.finished = @ \ {f},
                               !.query.pc = IF f.ok THEN "done" ELSE "failed"]
  /\ PoolFrame

\* ThreadPoolExecutor: a worker that is free takes the oldest queued task
WorkerTake ==
  /\ Len(pool.queue) > 0
  /\ Cardinality(pool.running) < MAX_WORKERS
  /\ pool' = [pool EXCEPT !.queue = Tail(@), !.running = @ \cup {Head(pool.queue)}]
  /\ PoolFrame

\* _generate_embeddings, lines 157-164: embedding_model.encode returns or raises in
\* the worker, which resolves the future
WorkerFinish ==
  /\ \E t \in pool.running, ok \in BOOLEAN :
       pool' = [pool EXCEPT !.running = @ \ {t},
                            !.finished = @ \cup {[task |-> t, ok |-> ok]}]
  /\ PoolFrame

NextPool ==
  \/ AddDocumentsStart
  \/ AddSubmitBatch
  \/ AddResume
  \/ AddPersist
  \/ SearchSimilarStart
  \/ SearchSimilarResume
  \/ WorkerTake
  \/ WorkerFinish

\* Scheduling: a free worker takes a queued task, encode terminates, and the event
\* loop resumes the search coroutine whose future is resolved.  Nothing is assumed
\* of the progress of add_documents.
SpecPool ==
  /\ InitStore
  /\ [][NextPool]_vars
  /\ WF_vars(WorkerTake)
  /\ WF_vars(WorkerFinish)
  /\ WF_vars(SearchSimilarResume)

\* C21: add_documents has at most one embedding task queued or running at any
\* time (batch k+1 is submitted only after batch k completed), so a search's
\* embedding task never waits in the queue while all workers are busy, and under
\* fair scheduling every search issued while add is in flight completes, whether
\* or not add's remaining batches are ever run
C21_SearchNotStarved ==
  /\ [](Cardinality(Outstanding(pool, "add")) <= 1)
  /\ []((\E i \in 1..Len(pool.queue) : pool.queue[i] = Task("query", 1))
          => Cardinality(pool.running) < MAX_WORKERS)
  /\ (pool.query.pc = "await") ~> (pool.query.pc \in {"done", "failed"})

\* C21 witness: the search has completed while add_documents, of five batches or
\* more, still awaits an early batch
C21_Witness ==
  /\ pool.query.pc = "done"
  /\ pool.add.pc = "await"
  /\ pool.add.n >= 5
  /\ pool.add.k <= 2

(***************************************************************************)
(* Properties of collection ownership                                      *)
(***************************************************************************)
\* C22 as claimed: create_collection(R2) never deletes or replaces a collection
\* that was created for a different repository identifier R1
C22_OneOwnerPerCollection ==
  Called("create_collection") => lastCall.replaced \subseteq {lastCall.repo_id}

\* C24: the messages handed to answer generation are one system message, then the
\* last min(10, len(history)) turns of the history in their order with role and
\* content unchanged, then the question as the final user message; older turns
\* are not forwarded
C24_LastTenTurnsForwarded ==
  Answered =>
    LET h == ragCall.conversation_history
        m == ragCall.messages
        n == Min(10, Len(h))
    IN /\ Len(m) = n + 2
       /\ m[1].role = "system"
       /\ \A k \in 1..n :
            /\ m[1 + k].role = h[Len(h) - n + k].role
            /\ m[1 + k].content = h[Len(h) - n + k].content
       /\ m[Len(m)] = [role |-> "user", content |-> ragCall.question]
       /\ \A k \in 1..(Len(h) - n) :
            \A j \in 2..(Len(m) - 1) : m[j].content # h[k].content

\* C24 witness: an answered question whose history has more than ten turns, so
\* that the oldest turns are left out
C24_Witness ==
  /\ Answered
  /\ Len(ragCall.conversation_history) > 10
  /\ Len(ragCall.messages) = 12

\* C30: a successful add_documents appends to the collection exactly one entry
\* per chunk produced by the call, under ids not in the store before, and keeps
\* every entry the collection held; so the entry count after a create and a
\* sequence of successful adds is the number of chunks produced by those adds,
\* and adding a file again appends a second set of entries
C30_AddAppendsUnderFreshIds ==
  [][(lastCall'.op = "add_documents" /\ ~lastCall'.raised) =>
       LET n == lastCall'.collection_name
           old == collections[n].entries
           new == collections'[n].entries
       IN /\ Len(new) = Len(old) + TotalChunks(lastCall'.documents, lastCall'.trees)
          /\ SubSeq(new, 1, Len(old)) = old
          /\ \A k \in (Len(old) + 1)..Len(new) : new[k].id \notin StoredIds(collections)
          /\ Len(new) = Len(addedSince'[n].ids)]_vars

\* C30 witness: the same single file was added twice after the create: the
\* collection holds two entries with the same text and file path and different ids
C30_Witness ==
  /\ Called("add_documents")
  /\ ~lastCall.raised
  /\ Len(lastCall.documents) = 1
  /\ LET es == collections[lastCall.collection_name].entries
     IN /\ Len(es) = 2
        /\ es[1].document = es[2].document
        /\ es[1].metadata.file_path = lastCall.documents[1].path
        /\ es[2].metadata.file_path = lastCall.documents[1].path
        /\ es[1].id # es[2].id

====
